---- MODULE Spec2Model ----
(***************************************************************************)
(* Verification model of the presence-backend fetch-and-cache pipeline.    *)
(*                                                                         *)
(* Three deployments of the same design live in the repository:            *)
(*   - the Express backend (src/src, src/unnamed/part_003): in-memory Map  *)
(*     cache, axios based Google Sheets client;                            *)
(*   - the Cloudflare Workers / Hono backend (src/cfw_hono-backend): KV    *)
(*     cache, fetch based Google Sheets client;                            *)
(*   - legacy variants (src/unnamed/part_001, second half of               *)
(*     src/src/routes/dataRoutes.js).                                      *)
(*                                                                         *)
(* Time is Date.now() in milliseconds; the clock advances in steps of      *)
(* TickMs.                                                                 *)
(***************************************************************************)
EXTENDS Integers, Sequences, FiniteSets, TLC

VARIABLES
    now,            \* Date.now()
    cacheDuration,  \* CacheService.cacheDuration (CACHE_DURATION or default)
    cache,          \* CacheService.cache : Map key -> {data, expiresAt, createdAt}
    last,           \* the last CacheService call and what it returned
    sheet,          \* contents of the remote sheet (a snapshot number)
    reqs,           \* Express requests in flight: handler position and locals
    rcall,          \* one _retryRequest call: loop position and locals
    kv,             \* Cloudflare KV namespace: key -> stored JSON text
    hreqs           \* Hono requests in flight: controller position and locals

cacheVars == <<now, cacheDuration, cache, last>>
nodeVars  == <<sheet, reqs>>
retryVars == <<rcall>>
honoVars  == <<kv, hreqs>>
vars      == <<now, cacheDuration, cache, last, sheet, reqs, rcall, kv, hreqs>>

(***************************************************************************)
(* Bounds of the model.                                                    *)
(***************************************************************************)
MaxTime          == 4     \* the clock stops after this many ticks
MaxCacheDuration == 2     \* configured TTLs explored: 1..MaxCacheDuration ticks
MaxSheetVersion  == 1     \* the remote sheet changes at most this many times

\* Step of the clock, in milliseconds.
TickMs == 30 * 1000

(***************************************************************************)
(* JavaScript values that travel through the cache.                        *)
(*   null            [kind |-> "null"]                                     *)
(*   object literal  [kind |-> "object", fields |-> record]                *)
(*   array           [kind |-> "array",  items  |-> sequence]              *)
(***************************************************************************)
JsNull == [kind |-> "null"]

JsObject(fields) == [kind |-> "object", fields |-> fields]

JsArray(items) == [kind |-> "array", items |-> items]

\* Property name of array index i (1-based here, 0-based in JavaScript).
IndexName(i) == CASE i = 1 -> "0" [] i = 2 -> "1" [] i = 3 -> "2" [] OTHER -> "3"

\* Own enumerable properties copied by the object spread `{ ...v }`.
Spread(v) ==
    CASE v.kind = "object" -> v.fields
      [] v.kind = "array"  ->
            LET names == {IndexName(i) : i \in DOMAIN v.items}
            IN  [n \in names |->
                    LET i == CHOOSE j \in DOMAIN v.items : IndexName(j) = n
                    IN  v.items[i]]
      [] OTHER -> [n \in {} |-> TRUE]

\* `{ ...o, name: val }` on a property record.
WithField(o, name, val) ==
    [f \in (DOMAIN o) \cup {name} |-> IF f = name THEN val ELSE o[f]]

\* The record o without property `name`.
WithoutField(o, name) == [f \in (DOMAIN o) \ {name} |-> o[f]]

(***************************************************************************)
(* Cache keys.  A JavaScript string is kept as a sequence of tokens (one   *)
(* character each for free text); generateKey's parts.join('|') is kept as *)
(* the sequence of its parts.  "" stands for null / absent.                *)
(***************************************************************************)
\* String(n) for the page numbers and sizes the model uses.
NumStr(n) ==
    CASE n = 1 -> "1" [] n = 2 -> "2" [] n = 3 -> "3" [] n = 15 -> "15"
      [] n = 100 -> "100" [] n = 200 -> "200" [] n = 1000 -> "1000"
      [] OTHER -> "n"

ToLowerChar(c) ==
    CASE c = "M" -> "m" [] c = "A" -> "a" [] c = "J" -> "j" [] c = "B" -> "b"
      [] OTHER -> c

ToLowerCase(s) == [i \in DOMAIN s |-> ToLowerChar(s[i])]

RECURSIVE TrimStart(_)
TrimStart(s) == IF s # <<>> /\ Head(s) = " " THEN TrimStart(Tail(s)) ELSE s

RECURSIVE TrimEnd(_)
TrimEnd(s) ==
    IF s # <<>> /\ s[Len(s)] = " " THEN TrimEnd(SubSeq(s, 1, Len(s) - 1)) ELSE s

Trim(s) == TrimEnd(TrimStart(s))

\* encodeURIComponent on the characters the model uses: a blank is escaped.
EncodeURIComponent(s) == [i \in DOMAIN s |-> IF s[i] = " " THEN "%20" ELSE s[i]]

\* searchParams.f is truthy: present and not the empty string.
Has(searchParams, f) == f \in DOMAIN searchParams /\ searchParams[f] # <<>>

GenerateKey(year, page, pageSize, searchParams) ==
    LET text(f) == EncodeURIComponent(Trim(ToLowerCase(searchParams[f])))
    IN  <<<<"data">>>>
        \o (IF year # "" THEN <<<<"year:", year>>>> ELSE <<>>)
        \o <<<<"page:", NumStr(page)>>>>
        \o <<<<"size:", NumStr(pageSize)>>>>
        \o (IF Has(searchParams, "search") THEN <<<<"s:">> \o text("search")>> ELSE <<>>)
        \o (IF Has(searchParams, "teacher") THEN <<<<"t:">> \o text("teacher")>> ELSE <<>>)
        \o (IF Has(searchParams, "student") THEN <<<<"st:">> \o text("student")>> ELSE <<>>)
        \o (IF Has(searchParams, "dateFrom") THEN <<<<"from:">> \o searchParams["dateFrom"]>> ELSE <<>>)
        \o (IF Has(searchParams, "dateTo") THEN <<<<"to:">> \o searchParams["dateTo"]>> ELSE <<>>)

NoSearch == [f \in {} |-> <<>>]

(***************************************************************************)
(* CacheService (in-memory Map).  The Map is a function whose domain is    *)
(* the set of keys present.                                                *)
(***************************************************************************)
EmptyCache == [k \in {} |-> JsNull]

\* Map.set(key, value)
MapSet(m, key, value) ==
    [k \in (DOMAIN m) \cup {key} |-> IF k = key THEN value ELSE m[k]]

\* Map.delete(key)
MapDelete(m, key) == [k \in (DOMAIN m) \ {key} |-> m[k]]

\* CacheService.get: the value returned.
GetResult(c, key, t) ==
    IF key \notin DOMAIN c THEN JsNull
    ELSE IF t > c[key].expiresAt THEN JsNull
    ELSE JsObject(WithField(Spread(c[key].data), "cached", TRUE))

\* Mutant of GetEffect: the expired entry is left in the Map.
GetEffectKeepsExpired(c, key, t) == c

\* CacheService.get: the Map it leaves (an expired entry is deleted).
GetEffect(c, key, t) ==
    IF key \in DOMAIN c /\ t > c[key].expiresAt THEN MapDelete(c, key) ELSE c

\* Mutant of SetEffect: an existing entry is kept (first writer wins).
SetEffectIfAbsent(c, key, data, t, duration) ==
    IF key \in DOMAIN c THEN c
    ELSE MapSet(c, key, [data |-> data, expiresAt |-> t + duration, createdAt |-> t])

\* Mutant of SetEffect: an overwritten entry keeps its former expiry.
SetEffectKeepsExpiry(c, key, data, t, duration) ==
    MapSet(c, key,
           [data |-> data,
            expiresAt |-> IF key \in DOMAIN c THEN c[key].expiresAt ELSE t + duration,
            createdAt |-> t])

\* CacheService.set: the Map it leaves.
SetEffect(c, key, data, t, duration) ==
    MapSet(c, key, [data |-> data, expiresAt |-> t + duration, createdAt |-> t])

\* CacheService.clear: the Map it leaves, and the size it logs.
ClearEffect(c) == EmptyCache

ClearCount(c) == Cardinality(DOMAIN c)

\* CacheService.cleanup: the Map it leaves, and the count it returns.
CleanupEffect(c, t) ==
    [k \in {x \in DOMAIN c : ~(t > c[x].expiresAt)} |-> c[k]]

CleanupCount(c, t) == Cardinality({x \in DOMAIN c : t > c[x].expiresAt})

\* The text of a key: its parts joined by "|".
RECURSIVE KeyText(_)
KeyText(key) ==
    IF key = <<>> THEN <<>>
    ELSE IF Len(key) = 1 THEN Head(key)
    ELSE Head(key) \o <<"|">> \o KeyText(Tail(key))

\* String.prototype.includes on texts.
Includes(text, pattern) ==
    \E i \in 0..Len(text) :
        /\ i + Len(pattern) <= Len(text)
        /\ SubSeq(text, i + 1, i + Len(pattern)) = pattern

\* String.prototype.startsWith on texts.
StartsWith(text, prefix) ==
    Len(prefix) <= Len(text) /\ SubSeq(text, 1, Len(prefix)) = prefix

\* CacheService.clearPattern: the Map it leaves, and the count it returns.
ClearPatternEffect(c, pattern) ==
    [k \in {x \in DOMAIN c : ~Includes(KeyText(x), pattern)} |-> c[k]]

ClearPatternCount(c, pattern) ==
    Cardinality({x \in DOMAIN c : Includes(KeyText(x), pattern)})

\* CacheService.getStats (approximateMemoryBytes, a string length, is left out).
GetStats(c, t, duration) ==
    [totalEntries   |-> Cardinality(DOMAIN c),
     activeEntries  |-> Cardinality({k \in DOMAIN c : ~(t > c[k].expiresAt)}),
     expiredEntries |-> Cardinality({k \in DOMAIN c : t > c[k].expiresAt}),
     cacheDuration  |-> duration]

(***************************************************************************)
(* Shared initial values.                                                  *)
(***************************************************************************)
DEFAULT_PAGE_SIZE == 15

DEFAULT_CACHE_DURATION == 300000

\* CACHE_DURATION values the model configures.
ConfiguredDurations == {k * TickMs : k \in 1..MaxCacheDuration}

NoCall ==
    [op |-> "none", key |-> <<>>, data |-> JsNull, result |-> JsNull, at |-> 0,
     hadEntry |-> FALSE, entryCreatedAt |-> 0, totalBefore |-> 0, count |-> 0,
     pattern |-> <<>>, before |-> EmptyCache, after |-> EmptyCache]

NoRetryCall ==
    [pc |-> "idle", variant |-> "node", caller |-> "none", maxRetries |-> 0,
     attempt |-> 0, delay |-> 0, timeout |-> 0, armed |-> FALSE,
     outcomes |-> <<>>, waits |-> <<>>, result |-> "none",
     error |-> [name |-> "none", status |-> 0, code |-> "", text |-> ""]]

CacheIdle ==
    /\ now = 0
    /\ cacheDuration = DEFAULT_CACHE_DURATION
    /\ cache = EmptyCache
    /\ last = NoCall

NodeIdle == sheet = 0 /\ reqs = [r \in {} |-> JsNull]

RetryIdle == rcall = NoRetryCall

HonoIdle == kv = EmptyCache /\ hreqs = [r \in {} |-> JsNull]

(***************************************************************************)
(* The clock.                                                              *)
(***************************************************************************)
Tick ==
    /\ now < MaxTime * TickMs
    /\ now' = now + TickMs
    /\ UNCHANGED <<cacheDuration, cache, last, sheet, reqs, rcall, kv, hreqs>>

(***************************************************************************)
(* SpecCache: the CacheService class driven through its public methods.    *)
(***************************************************************************)
Payloads ==
    { JsObject([data |-> 0]),
      JsObject([data |-> 1, cached |-> FALSE]),
      JsArray(<<"Budi">>) }

CacheKeys ==
    { GenerateKey("", 1, 15, NoSearch), GenerateKey("2025", 1, 15, NoSearch) }

\* Patterns handed to clearPattern.
Patterns == { <<"2025">>, <<"year:", "2025">>, <<"page:", "1">>, <<"all">> }

\* What the call log keeps of a method call on `key` made now.
Called(op, key, data, result, count) ==
    [op |-> op, key |-> key, data |-> data, result |-> result, at |-> now,
     hadEntry |-> key \in DOMAIN cache,
     entryCreatedAt |-> IF key \in DOMAIN cache THEN cache[key].createdAt ELSE 0,
     totalBefore |-> GetStats(cache, now, cacheDuration).totalEntries,
     count |-> count,
     pattern |-> <<>>, before |-> cache, after |-> cache']

Get(key) ==
    /\ cache' = GetEffect(cache, key, now)
    /\ last' = Called("get", key, JsNull, GetResult(cache, key, now), 0)
    /\ UNCHANGED <<now, cacheDuration, sheet, reqs, rcall, kv, hreqs>>

Set(key, data) ==
    /\ cache' = SetEffect(cache, key, data, now, cacheDuration)
    /\ last' = Called("set", key, data, JsNull, 0)
    /\ UNCHANGED <<now, cacheDuration, sheet, reqs, rcall, kv, hreqs>>

Clear ==
    /\ cache' = ClearEffect(cache)
    /\ last' = Called("clear", <<>>, JsNull, JsNull, ClearCount(cache))
    /\ UNCHANGED <<now, cacheDuration, sheet, reqs, rcall, kv, hreqs>>

Cleanup ==
    /\ cache' = CleanupEffect(cache, now)
    /\ last' = Called("cleanup", <<>>, JsNull, JsNull, CleanupCount(cache, now))
    /\ UNCHANGED <<now, cacheDuration, sheet, reqs, rcall, kv, hreqs>>

ClearPattern(pattern) ==
    /\ cache' = ClearPatternEffect(cache, pattern)
    /\ last' = [Called("clearPattern", <<>>, JsNull, JsNull,
                       ClearPatternCount(cache, pattern))
                  EXCEPT !.pattern = pattern]
    /\ UNCHANGED <<now, cacheDuration, sheet, reqs, rcall, kv, hreqs>>

InitCache ==
    /\ now = 0
    /\ cacheDuration \in ConfiguredDurations
    /\ cache = EmptyCache
    /\ last = NoCall
    /\ NodeIdle /\ RetryIdle /\ HonoIdle

NextCache ==
    \/ Tick
    \/ \E key \in CacheKeys : Get(key)
    \/ \E key \in CacheKeys, data \in Payloads : Set(key, data)
    \/ Clear
    \/ \E pattern \in Patterns : ClearPattern(pattern)
    \/ Cleanup

SpecCache == InitCache /\ [][NextCache]_vars

\* C2: a get made after the entry's expiry instant (time of set + TTL)
\* returns the miss signal and removes the entry, so getStats counts one
\* entry less and none for that key.
C2_ExpiredGetMissesAndEvicts ==
    (last.op = "get" /\ last.hadEntry
        /\ last.at > last.entryCreatedAt + cacheDuration)
    => /\ last.result = JsNull
       /\ last.key \notin DOMAIN cache
       /\ GetStats(cache, now, cacheDuration).totalEntries = last.totalBefore - 1

C2_Witness ==
    /\ last.op = "get" /\ last.hadEntry
    /\ last.at > last.entryCreatedAt + cacheDuration
    /\ last.result = JsNull
    /\ last.totalBefore = 2

(***************************************************************************)
(* SpecNode: the Express routes of src/src/routes/dataRoutes.js over the   *)
(* in-memory CacheService and GoogleSheetsService.fetchData.               *)
(*                                                                         *)
(* fetchData is an outstanding remote call that later resolves with the    *)
(* records of the sheet as it is then, or rejects; its retry loop is       *)
(* modelled on its own in SpecRetry.  The records of a sheet snapshot are  *)
(* kept as the snapshot number, which pagination and the record counts of  *)
(* the envelope are functions of.                                          *)
(***************************************************************************)
Reqs == {"r1", "r2"}

\* requestTimeout(60000) of the data, query and refresh routes.
RequestTimeout == 60000

NoResponse == [status |-> 0, body |-> JsNull]

IdleReq ==
    [pc |-> "idle", kind |-> "none", year |-> "", key |-> <<>>,
     arrivedAt |-> 0, startTime |-> 0, missed |-> FALSE, overlapped |-> FALSE,
     headersSent |-> FALSE, response |-> NoResponse, timedOut |-> FALSE,
     sendErrors |-> 0, unhandled |-> FALSE, fetched |-> "none",
     payload |-> JsNull, wroteSeq |-> 0, entriesAtStart |-> {}]

\* { error: true, message, timestamp }
ErrorEnvelope(message, t) ==
    JsObject([error |-> TRUE, message |-> message, timestamp |-> t])

\* The response object of GET /data before it is cached.
DataResponse(snapshot, year, t, fetchTime) ==
    JsObject([data |-> snapshot,
              filters |-> IF year # "" THEN year ELSE "all",
              fetchedAt |-> t,
              fetchTime |-> fetchTime])

\* res.status(status).json(body): throws ERR_HTTP_HEADERS_SENT once the
\* headers are out.
SendJson(rq, status, body) ==
    IF rq.headersSent
    THEN [rq EXCEPT !.sendErrors = @ + 1]
    ELSE [rq EXCEPT !.headersSent = TRUE,
                    !.response = [status |-> status, body |-> body]]

\* A handler's `try { ...; send(status, body) } catch (e) { send(500, envelope) }`
\* when the try block reaches its send: a throwing send lands in the catch
\* block, whose own send throws again and rejects the handler's promise.
TrySend(rq, status, body, t) ==
    IF rq.headersSent
    THEN [SendJson(SendJson(rq, status, body), 500,
                   ErrorEnvelope("ERR_HTTP_HEADERS_SENT", t))
            EXCEPT !.unhandled = TRUE]
    ELSE SendJson(rq, status, body)

\* The catch block alone: send the 500 envelope; a throwing send rejects.
CatchSend(rq, message, t) ==
    IF rq.headersSent
    THEN [SendJson(rq, 500, ErrorEnvelope(message, t)) EXCEPT !.unhandled = TRUE]
    ELSE SendJson(rq, 500, ErrorEnvelope(message, t))

\* fetchData up to its first await: _init() and the destructuring of
\* `options`, which throws a TypeError when options is null.
FetchDataEntry(options, configured) ==
    IF ~configured THEN "Missing Google Sheets configuration"
    ELSE IF options = JsNull THEN "TypeError: Cannot destructure property of null"
    ELSE "ok"

\* Sequence number of the next cache write.
NextWriteSeq ==
    1 + Cardinality({r \in Reqs : reqs[r].wroteSeq > 0})

\* GET /data up to its first await: parse, generateKey, cache.get; a hit is
\* sent at once, a miss starts fetchData.
DataStart(r, year) ==
    /\ reqs[r].pc = "idle"
    /\ LET key    == GenerateKey(year, 1, DEFAULT_PAGE_SIZE, NoSearch)
           cached == GetResult(cache, key, now)
           rq     == [reqs[r] EXCEPT !.kind = "data", !.year = year, !.key = key,
                                     !.arrivedAt = now, !.startTime = now,
                                     !.entriesAtStart = DOMAIN cache]
           entry  == FetchDataEntry(
                        JsObject([year |-> year, page |-> 1,
                                  pageSize |-> DEFAULT_PAGE_SIZE]), TRUE)
       IN  /\ cache' = GetEffect(cache, key, now)
           /\ reqs' = [reqs EXCEPT ![r] =
                IF cached # JsNull
                THEN [TrySend(rq, 200, cached, now) EXCEPT !.pc = "done"]
                ELSE IF entry # "ok"
                THEN [CatchSend([rq EXCEPT !.missed = TRUE], entry, now)
                        EXCEPT !.pc = "done", !.fetched = "failed"]
                ELSE [rq EXCEPT !.pc = "fetching", !.missed = TRUE,
                                !.overlapped =
                                    \E o \in Reqs \ {r} :
                                        /\ reqs[o].pc = "fetching"
                                        /\ reqs[o].kind = "data"
                                        /\ reqs[o].key = key]]
    /\ UNCHANGED <<now, cacheDuration, last, sheet, rcall, kv, hreqs>>

\* Mutant of CacheAfterFetch: the response is cached on the failure path too.
CacheAfterFetchAlwaysSets(c, key, response, t, duration, ok) ==
    SetEffect(c, key, response, t, duration)

\* The Map after the handler's `await fetchData(...)` settled: cache.set
\* stands in the try block after the await, so a rejected fetch skips it.
CacheAfterFetch(c, key, response, t, duration, ok) ==
    IF ok THEN SetEffect(c, key, response, t, duration) ELSE c

\* GET /data after `await fetchData(...)`: on success filter, paginate,
\* build the response, cache.set and send it with cached: false; on failure
\* the catch block sends the error envelope.
DataReturn(r, ok) ==
    /\ reqs[r].pc = "fetching" /\ reqs[r].kind = "data"
    /\ LET rq       == reqs[r]
           response == DataResponse(sheet, rq.year, now, now - rq.startTime)
           sent     == JsObject(WithField(response.fields, "cached", FALSE))
       IN  IF ok
           THEN /\ cache' = CacheAfterFetch(cache, rq.key, response, now,
                                            cacheDuration, ok)
                /\ reqs' = [reqs EXCEPT ![r] =
                      [TrySend([rq EXCEPT !.payload = response,
                                          !.fetched = "ok",
                                          !.wroteSeq = NextWriteSeq],
                               200, sent, now)
                         EXCEPT !.pc = "done"]]
           ELSE /\ cache' = CacheAfterFetch(cache, rq.key, response, now,
                                            cacheDuration, ok)
                /\ reqs' = [reqs EXCEPT ![r] =
                      [CatchSend([rq EXCEPT !.fetched = "failed"],
                                 "Failed to fetch data from Google Sheets", now)
                         EXCEPT !.pc = "done"]]
    /\ UNCHANGED <<now, cacheDuration, last, sheet, rcall, kv, hreqs>>

\* The req.setTimeout callback of requestTimeout: answer 504 unless the
\* headers are already sent.  Nothing else of the request is touched.
TimerDue(r) ==
    /\ reqs[r].pc = "fetching"
    /\ ~reqs[r].timedOut
    /\ now >= reqs[r].arrivedAt + RequestTimeout

RequestTimeoutFires(r) ==
    /\ TimerDue(r)
    /\ reqs' = [reqs EXCEPT ![r] =
          [SendJson(reqs[r], 504,
                    JsObject([error |-> TRUE,
                              message |-> "Request timeout - The request took too long to process",
                              timestamp |-> now,
                              timeout |-> RequestTimeout \div 1000]))
             EXCEPT !.timedOut = TRUE]]
    /\ UNCHANGED <<now, cacheDuration, cache, last, sheet, rcall, kv, hreqs>>

\* GET /refresh: cache.clear(), then `await fetchData(null)` and the
\* confirmation; fetchData(null) rejects before its first await, so the
\* handler runs through without yielding to any other callback.
Refresh(r) ==
    /\ reqs[r].pc = "idle"
    /\ LET rq    == [reqs[r] EXCEPT !.kind = "refresh", !.arrivedAt = now,
                                    !.startTime = now,
                                    !.entriesAtStart = DOMAIN cache]
           entry == FetchDataEntry(JsNull, TRUE)
       IN  /\ cache' = ClearEffect(cache)
           /\ reqs' = [reqs EXCEPT ![r] =
                IF entry = "ok"
                THEN [rq EXCEPT !.pc = "fetching"]
                ELSE [CatchSend([rq EXCEPT !.fetched = "failed"], entry, now)
                        EXCEPT !.pc = "done"]]
    /\ UNCHANGED <<now, cacheDuration, last, sheet, rcall, kv, hreqs>>

\* POST /cache/clear: `try { cache.clear(); send 200 }`; when the try block
\* throws, the catch block sends { error: true, message } with status 500.
CacheClear(r, threw) ==
    /\ reqs[r].pc = "idle"
    /\ LET rq == [reqs[r] EXCEPT !.kind = "clear", !.arrivedAt = now,
                                 !.entriesAtStart = DOMAIN cache]
       IN  IF threw
           THEN /\ cache' = cache
                /\ reqs' = [reqs EXCEPT ![r] =
                      [SendJson([rq EXCEPT !.fetched = "failed"], 500,
                                JsObject([error |-> TRUE,
                                          message |-> "Failed to clear cache"]))
                         EXCEPT !.pc = "done"]]
           ELSE /\ cache' = ClearEffect(cache)
                /\ reqs' = [reqs EXCEPT ![r] =
                      [TrySend(rq, 200,
                               JsObject([message |-> "Cache cleared successfully"]),
                               now)
                         EXCEPT !.pc = "done"]]
    /\ UNCHANGED <<now, cacheDuration, last, sheet, rcall, kv, hreqs>>

\* The spreadsheet is edited.
SheetEdit ==
    /\ sheet < MaxSheetVersion
    /\ sheet' = sheet + 1
    /\ UNCHANGED <<now, cacheDuration, cache, last, reqs, rcall, kv, hreqs>>

\* Timers fire when due: the clock does not pass a due timeout callback.
NodeTick == (\A r \in Reqs : ~TimerDue(r)) /\ Tick

InitNode ==
    /\ now = 0
    /\ cacheDuration \in ConfiguredDurations
    /\ cache = EmptyCache
    /\ last = NoCall
    /\ sheet = 0
    /\ reqs = [r \in Reqs |-> IdleReq]
    /\ RetryIdle /\ HonoIdle

NextNode ==
    \/ NodeTick
    \/ SheetEdit
    \/ \E r \in Reqs, year \in {"", "2025"} : DataStart(r, year)
    \/ \E r \in Reqs, ok \in BOOLEAN : DataReturn(r, ok)
    \/ \E r \in Reqs : RequestTimeoutFires(r)
    \/ \E r \in Reqs : Refresh(r)
    \/ \E r \in Reqs, threw \in BOOLEAN : CacheClear(r, threw)

SpecNode == InitNode /\ [][NextNode]_vars

\* C4: two overlapping get-data requests for the same uncached key both
\* miss, both fetch and both write; afterwards the cache holds one entry for
\* the key, the payload of the request that wrote last, and each request
\* whose own fetch succeeded within its deadline got its own 200 response.
C4_ConcurrentMissesLastWriterWins ==
    \A a \in Reqs, b \in Reqs :
        ( /\ a # b
          /\ reqs[a].kind = "data" /\ reqs[b].kind = "data"
          /\ reqs[a].key = reqs[b].key
          /\ reqs[a].missed /\ reqs[b].missed
          /\ reqs[a].overlapped \/ reqs[b].overlapped
          /\ reqs[a].pc = "done" /\ reqs[b].pc = "done"
          /\ reqs[a].fetched = "ok" /\ reqs[b].fetched = "ok"
          /\ reqs[a].wroteSeq > reqs[b].wroteSeq )
        => /\ reqs[a].key \in DOMAIN cache
           /\ cache[reqs[a].key].data = reqs[a].payload
           /\ \A r \in {a, b} :
                ~reqs[r].timedOut =>
                    reqs[r].response =
                        [status |-> 200,
                         body |-> JsObject(WithField(reqs[r].payload.fields,
                                                     "cached", FALSE))]

C4_Witness ==
    \E a \in Reqs, b \in Reqs :
        /\ a # b
        /\ reqs[a].key = reqs[b].key
        /\ reqs[a].missed /\ reqs[b].missed
        /\ reqs[b].overlapped
        /\ reqs[a].pc = "done" /\ reqs[b].pc = "done"
        /\ reqs[a].fetched = "ok" /\ reqs[b].fetched = "ok"
        /\ reqs[a].wroteSeq > reqs[b].wroteSeq
        /\ reqs[a].payload # reqs[b].payload
        /\ ~reqs[a].timedOut /\ ~reqs[b].timedOut
        /\ cache[reqs[a].key].data = reqs[a].payload

\* C9: when a refresh request completes, none of the entries present at its
\* start is still in the cache and its response is the success confirmation,
\* not an error envelope.
C9_RefreshClearsAndConfirms ==
    \A r \in Reqs :
        (reqs[r].kind = "refresh" /\ reqs[r].pc = "done")
        => /\ \A k \in reqs[r].entriesAtStart :
                k \in DOMAIN cache => cache[k].createdAt >= reqs[r].arrivedAt
           /\ reqs[r].response.status = 200
           /\ "error" \notin DOMAIN reqs[r].response.body.fields

\* C10: once a request's deadline has expired with its remote call still
\* outstanding, the call is aborted and the client has the 504 timeout
\* response; no request is unanswered past its deadline.
C10_TimeoutAbortsAndAnswers ==
    \A r \in Reqs :
        /\ reqs[r].timedOut =>
              /\ reqs[r].response.status = 504
              /\ reqs[r].pc # "fetching"
        /\ (reqs[r].pc = "fetching" /\ now > reqs[r].arrivedAt + RequestTimeout)
              => reqs[r].headersSent

\* An error envelope: an object with the error flag, a message and a
\* timestamp.
IsErrorEnvelope(body) ==
    /\ body.kind = "object"
    /\ {"error", "message", "timestamp"} \subseteq DOMAIN body.fields
    /\ body.fields["error"] = TRUE

HasCleared(r) ==
    /\ reqs[r].pc = "done"
    /\ \/ reqs[r].kind = "refresh"
       \/ reqs[r].kind = "clear" /\ reqs[r].fetched # "failed"

\* C37: after a cache clear completes, no entry in the cache is the result
\* of a get-data request whose fetch started before the clear.
C37_NoPreClearResultAfterClear ==
    \A c \in Reqs, d \in Reqs :
        ( /\ HasCleared(c)
          /\ reqs[d].kind = "data" /\ reqs[d].missed
          /\ reqs[d].startTime < reqs[c].arrivedAt )
        => ~( /\ reqs[d].key \in DOMAIN cache
              /\ cache[reqs[d].key].data = reqs[d].payload )

\* C38: every finished request has one response, and after the timeout
\* handler has sent the 504 response the route handler makes no further
\* attempt to send.
C38_OneResponsePerRequest ==
    \A r \in Reqs :
        /\ reqs[r].pc = "done" => reqs[r].headersSent
        /\ reqs[r].timedOut => reqs[r].sendErrors = 0

\* A step of get-data request r on a path other than the hit and the
\* successful fetch: the miss, the timeout callback, the failed fetch.
StepOfUnservedRequest(r) ==
    /\ reqs'[r] # reqs[r]
    /\ reqs'[r].kind = "data"
    /\ reqs'[r].pc = "fetching" \/ reqs'[r].fetched = "failed"

\* The request ends on the failure of its fetch with an error envelope as
\* its response.
EndsWithEnvelope(r) ==
    (reqs[r].pc = "fetching" /\ reqs'[r].pc = "done" /\ reqs'[r].fetched = "failed")
    => /\ reqs'[r].response.status >= 400
       /\ IsErrorEnvelope(reqs'[r].response.body)

\* C39 as stated: a get-data request whose fetch fails leaves the cache
\* exactly as it was and ends with the error envelope.
C39_FailedRequestLeavesCacheUntouched ==
    [][\A r \in Reqs :
          StepOfUnservedRequest(r) => (cache' = cache /\ EndsWithEnvelope(r))]_vars

\* C39 as amended: such a request creates and changes no entry and ends
\* with the error envelope; the one entry it may remove is the expired
\* entry of its own key, which its lookup deletes.
C39_FailedRequestWritesNothing ==
    [][\A r \in Reqs :
          StepOfUnservedRequest(r) =>
              /\ DOMAIN cache' \subseteq DOMAIN cache
              /\ \A k \in DOMAIN cache :
                    \/ k \in DOMAIN cache' /\ cache'[k] = cache[k]
                    \/ /\ k \notin DOMAIN cache'
                       /\ k = reqs'[r].key
                       /\ reqs[r].pc = "idle"
                       /\ now > cache[k].expiresAt
              /\ EndsWithEnvelope(r)]_vars

\* A get-data request found the expired entry of its key, fetched and
\* failed.
C39_Witness ==
    \E r \in Reqs :
        /\ reqs[r].kind = "data" /\ reqs[r].pc = "done"
        /\ reqs[r].fetched = "failed"
        /\ reqs[r].key \in reqs[r].entriesAtStart
        /\ reqs[r].key \notin DOMAIN cache

\* SpecNode with the scheduling Node.js guarantees: timers fire when due and
\* a pending fetchData settles.  Requests and sheet edits may stop coming.
\* This router creates its CacheService and sets up no timer that calls
\* cleanup(), so no cleanup step is part of NextNode.
SpecNodeLive ==
    /\ SpecNode
    /\ WF_vars(NodeTick)
    /\ \A r \in Reqs :
          /\ WF_vars(RequestTimeoutFires(r))
          /\ WF_vars(\E ok \in BOOLEAN : DataReturn(r, ok))

\* The entry of key k is in the Map and past its expiry.
ExpiredEntry(k) == k \in DOMAIN cache /\ now > cache[k].expiresAt

\* C15: the periodic cleanup pass runs independently of requests, so every
\* expired entry is eventually removed even if its key is never read again.
C15_ExpiredEntriesEventuallyRemoved ==
    \A k \in CacheKeys : ExpiredEntry(k) ~> ~ExpiredEntry(k)

(***************************************************************************)
(* SpecLegacy: the earlier router (second half of                          *)
(* src/src/routes/dataRoutes.js) over the earlier in-memory CacheService   *)
(* (src/unnamed/part_001).  Its routes carry no request timeout; a timer   *)
(* calls cleanup() every 10 minutes.  The clock advances in steps of       *)
(* LegacyTickMs.                                                           *)
(***************************************************************************)
LegacyTickMs == 5 * 60 * 1000

\* setInterval(..., 10 * 60 * 1000)
CleanupInterval == 10 * 60 * 1000

\* generateKey(year, page, pageSize) of the earlier CacheService.
LegacyGenerateKey(year, page, pageSize) ==
    <<<<"data">>>>
    \o (IF year # "" THEN <<<<"year:", year>>>> ELSE <<>>)
    \o <<<<"page:", NumStr(page)>>>>
    \o <<<<"size:", NumStr(pageSize)>>>>

\* set of the earlier CacheService: the stored data is { ...data, cached: false }.
LegacySetEffect(c, key, data, t, duration) ==
    MapSet(c, key, [data |-> JsObject(WithField(Spread(data), "cached", FALSE)),
                    expiresAt |-> t + duration, createdAt |-> t])

\* The response object of the earlier GET /data.
LegacyDataResponse(snapshot, year, t) ==
    JsObject([cached |-> FALSE,
              data |-> snapshot,
              filters |-> IF year # "" THEN year ELSE "all",
              fetchedAt |-> t])

\* GET /data up to `await fetchData()`.
LegacyDataStart(r, year) ==
    /\ reqs[r].pc = "idle"
    /\ LET key    == LegacyGenerateKey(year, 1, DEFAULT_PAGE_SIZE)
           cached == GetResult(cache, key, now)
           rq     == [reqs[r] EXCEPT !.kind = "data", !.year = year, !.key = key,
                                     !.arrivedAt = now, !.startTime = now,
                                     !.entriesAtStart = DOMAIN cache]
       IN  /\ cache' = GetEffect(cache, key, now)
           /\ reqs' = [reqs EXCEPT ![r] =
                IF cached # JsNull
                THEN [TrySend(rq, 200, cached, now) EXCEPT !.pc = "done"]
                ELSE [rq EXCEPT !.pc = "fetching", !.missed = TRUE]]
    /\ UNCHANGED <<now, cacheDuration, last, sheet, rcall, kv, hreqs>>

\* GET /data after `await fetchData()`.
LegacyDataReturn(r, ok) ==
    /\ reqs[r].pc = "fetching" /\ reqs[r].kind = "data"
    /\ LET rq       == reqs[r]
           response == LegacyDataResponse(sheet, rq.year, now)
       IN  IF ok
           THEN /\ cache' = LegacySetEffect(cache, rq.key, response, now,
                                            cacheDuration)
                /\ reqs' = [reqs EXCEPT ![r] =
                      [TrySend([rq EXCEPT !.payload = response,
                                          !.fetched = "ok"],
                               200, response, now)
                         EXCEPT !.pc = "done"]]
           ELSE /\ cache' = cache
                /\ reqs' = [reqs EXCEPT ![r] =
                      [CatchSend([rq EXCEPT !.fetched = "failed"],
                                 "Failed to fetch data from Google Sheets", now)
                         EXCEPT !.pc = "done"]]
    /\ UNCHANGED <<now, cacheDuration, last, sheet, rcall, kv, hreqs>>

\* GET /refresh up to `await fetchData()`: clear the cache.
LegacyRefreshStart(r) ==
    /\ reqs[r].pc = "idle"
    /\ cache' = ClearEffect(cache)
    /\ reqs' = [reqs EXCEPT ![r] =
          [@ EXCEPT !.kind = "refresh", !.arrivedAt = now, !.startTime = now,
                    !.entriesAtStart = DOMAIN cache, !.pc = "fetching"]]
    /\ UNCHANGED <<now, cacheDuration, last, sheet, rcall, kv, hreqs>>

\* GET /refresh after `await fetchData()`.
LegacyRefreshReturn(r, ok) ==
    /\ reqs[r].pc = "fetching" /\ reqs[r].kind = "refresh"
    /\ reqs' = [reqs EXCEPT ![r] =
          IF ok
          THEN [TrySend([@ EXCEPT !.fetched = "ok"], 200,
                        JsObject([message |-> "Data refreshed successfully",
                                  data |-> sheet, refreshedAt |-> now]), now)
                  EXCEPT !.pc = "done"]
          ELSE [CatchSend([@ EXCEPT !.fetched = "failed"],
                          "Failed to refresh data", now)
                  EXCEPT !.pc = "done"]]
    /\ UNCHANGED <<now, cacheDuration, cache, last, sheet, rcall, kv, hreqs>>

\* The cleanup timer is due and has not run at this instant.
SweepDue ==
    /\ now > 0 /\ now % CleanupInterval = 0
    /\ ~(last.op = "cleanup" /\ last.at = now)

\* The setInterval callback: cacheService.cleanup().
LegacySweep ==
    /\ SweepDue
    /\ cache' = CleanupEffect(cache, now)
    /\ last' = Called("cleanup", <<>>, JsNull, JsNull, CleanupCount(cache, now))
    /\ UNCHANGED <<now, cacheDuration, sheet, reqs, rcall, kv, hreqs>>

LegacyTick ==
    /\ ~SweepDue
    /\ now < MaxTime * LegacyTickMs
    /\ now' = now + LegacyTickMs
    /\ UNCHANGED <<cacheDuration, cache, last, sheet, reqs, rcall, kv, hreqs>>

InitLegacy == InitNode

NextLegacy ==
    \/ LegacyTick
    \/ LegacySweep
    \/ SheetEdit
    \/ \E r \in Reqs, year \in {"", "2025"} : LegacyDataStart(r, year)
    \/ \E r \in Reqs, ok \in BOOLEAN : LegacyDataReturn(r, ok)
    \/ \E r \in Reqs : LegacyRefreshStart(r)
    \/ \E r \in Reqs, ok \in BOOLEAN : LegacyRefreshReturn(r, ok)

SpecLegacy == InitLegacy /\ [][NextLegacy]_vars

\* C16: a response served from a cache hit carries cached = true, a
\* response computed on a miss carries cached = false, and no payload held
\* in the cache carries a cached marker of its own.
C16_CachedFlagOnlyAtServeTime ==
    /\ \A r \in Reqs :
          (reqs[r].kind = "data" /\ reqs[r].response.status = 200)
          => reqs[r].response.body.fields["cached"] = ~reqs[r].missed
    /\ \A k \in DOMAIN cache : "cached" \notin DOMAIN Spread(cache[k].data)

(***************************************************************************)
(* SpecKey: CacheService.generateKey called on argument lists drawn from   *)
(* bounded sets; `last` keeps the latest call and the one before it.       *)
(***************************************************************************)
\* Free-text terms, one token per character.
Terms ==
    { <<>>, <<" ">>, <<"M", "a">>, <<"m", "a">>, <<"m", "a", " ">>,
      <<" ", "M", "a">>, <<"m", " ", "a">> }

\* searchParams objects: {}, { search }, { teacher }, { student }.
SearchInputs ==
    {NoSearch}
    \cup {[f \in {"search"} |-> t] : t \in Terms}
    \cup {[f \in {"teacher"} |-> t] : t \in Terms}
    \cup {[f \in {"student"} |-> t] : t \in Terms}

KeyArgs ==
    [year : {"", "2025"}, page : {1, 2}, pageSize : {DEFAULT_PAGE_SIZE},
     searchParams : SearchInputs]

NoKeyCall ==
    [op |-> "none",
     args |-> [year |-> "", page |-> 1, pageSize |-> DEFAULT_PAGE_SIZE,
               searchParams |-> NoSearch],
     key |-> <<>>,
     prevOp |-> "none",
     prevArgs |-> [year |-> "", page |-> 1, pageSize |-> DEFAULT_PAGE_SIZE,
                   searchParams |-> NoSearch],
     prevKey |-> <<>>]

GenerateKeyCall(args) ==
    /\ last' = [op |-> "generateKey",
                args |-> args,
                key |-> GenerateKey(args.year, args.page, args.pageSize,
                                    args.searchParams),
                prevOp |-> last.op,
                prevArgs |-> last.args,
                prevKey |-> last.key]
    /\ UNCHANGED <<now, cacheDuration, cache, sheet, reqs, rcall, kv, hreqs>>

InitKey ==
    /\ now = 0
    /\ cacheDuration = DEFAULT_CACHE_DURATION
    /\ cache = EmptyCache
    /\ last = NoKeyCall
    /\ NodeIdle /\ RetryIdle /\ HonoIdle

NextKey == \E args \in KeyArgs : GenerateKeyCall(args)

SpecKey == InitKey /\ [][NextKey]_vars

\* Two searchParams objects that differ at most in the letter case and the
\* leading/trailing whitespace of their free-text terms.
SameUpToCaseAndTrim(p, q) ==
    /\ DOMAIN p = DOMAIN q
    /\ \A f \in DOMAIN p :
          IF f \in {"search", "teacher", "student"}
          THEN Trim(ToLowerCase(p[f])) = Trim(ToLowerCase(q[f]))
          ELSE p[f] = q[f]

\* C17: two generateKey calls whose arguments differ only in the letter case
\* and the leading/trailing whitespace of the search, teacher and student
\* terms return the same key.
C17_KeyIgnoresCaseAndOuterWhitespace ==
    ( /\ last.op = "generateKey" /\ last.prevOp = "generateKey"
      /\ last.args.year = last.prevArgs.year
      /\ last.args.page = last.prevArgs.page
      /\ last.args.pageSize = last.prevArgs.pageSize
      /\ SameUpToCaseAndTrim(last.args.searchParams, last.prevArgs.searchParams) )
    => last.key = last.prevKey

(***************************************************************************)
(* SpecProcessor: the pure functions of src/src/utils/dataProcessor.js     *)
(* called on arguments drawn from bounded sets; `last` keeps the call and  *)
(* its result.  A grid is a sequence of rows, a row a sequence of cells, a *)
(* cell a string (sequence of tokens).                                     *)
(***************************************************************************)
MaxRows == 3      \* data rows of a grid
MaxItems == 5     \* records handed to paginateData
MaxPageSize == 3  \* page sizes handed to paginateData

REQUIRED_FIELDS ==
    <<"Nama Tentor", "Nama Siswa", "Hari dan Tanggal Les", "Jam Kegiatan Les",
      "Timestamp">>

\* headers.indexOf(field), 1-based; 0 when absent (-1 in JavaScript).
IndexOf(headers, field) ==
    IF \E i \in DOMAIN headers : headers[i] = field
    THEN CHOOSE i \in DOMAIN headers :
            headers[i] = field /\ \A j \in 1..(i - 1) : headers[j] # field
    ELSE 0

\* row[colIndex] || '': a missing cell reads as the empty string.
CellOr(row, i) == IF i \in DOMAIN row THEN row[i] ELSE <<>>

\* `cell && cell.trim()` is truthy.
NonBlank(cell) == cell # <<>> /\ Trim(cell) # <<>>

IsRowEmpty(row, headers) ==
    \A k \in DOMAIN REQUIRED_FIELDS :
        LET colIndex == IndexOf(headers, REQUIRED_FIELDS[k])
        IN  colIndex = 0 \/ ~NonBlank(CellOr(row, colIndex))

\* The object built from a row: the last column of a header name wins.
RowItem(row, headers) ==
    [h \in {headers[i] : i \in DOMAIN headers} |->
        LET col == CHOOSE i \in DOMAIN headers :
                      headers[i] = h /\ \A j \in DOMAIN headers :
                                            headers[j] = h => j <= i
        IN  CellOr(row, col)]

\* Mutant of IsRowValid: the required fields are not trimmed.
IsRowValidUntrimmed(obj) ==
    \A k \in DOMAIN REQUIRED_FIELDS :
        /\ REQUIRED_FIELDS[k] \in DOMAIN obj.fields
        /\ obj.fields[REQUIRED_FIELDS[k]] # <<>>

IsRowValid(obj) ==
    \A k \in DOMAIN REQUIRED_FIELDS :
        /\ REQUIRED_FIELDS[k] \in DOMAIN obj.fields
        /\ NonBlank(obj.fields[REQUIRED_FIELDS[k]])

ProcessSheetData(values) ==
    IF values = <<>> THEN <<>>
    ELSE LET headers == values[1]
             rows    == Tail(values)
             KeepRow(row) == /\ \E i \in DOMAIN row : NonBlank(row[i])
                             /\ ~IsRowEmpty(row, headers)
             kept    == SelectSeq(rows, KeepRow)
             items   == [i \in DOMAIN kept |->
                            [fields |-> RowItem(kept[i], headers),
                             rowIndex |-> (i - 1) + 2]]
         IN  SelectSeq(items, IsRowValid)

\* Header rows and data rows the grids are built from.
Headers ==
    { <<"Timestamp", "Nama Tentor", "Nama Siswa", "Hari dan Tanggal Les",
        "Jam Kegiatan Les">>,
      <<"Nama Tentor", "Nama Siswa", "Hari dan Tanggal Les", "Jam Kegiatan Les",
        "Timestamp", "Catatan">>,
      <<"Timestamp", "Nama Tentor", "Nama Siswa", "Hari dan Tanggal Les">> }

DataRows ==
    { <<<<"a">>, <<"b">>, <<"c">>, <<"d">>, <<"e">>>>,
      <<<<"f">>, <<"g">>, <<"h">>, <<"i">>, <<"j">>, <<"k">>>>,
      <<>>,
      <<<<" ">>, <<>>, <<" ">>>>,
      <<<<"a">>, <<>>, <<"c">>, <<"d">>, <<"e">>>>,
      <<<<"a">>, <<"b">>, <<" ">>, <<"d">>, <<"e">>>>,
      <<<<"a">>, <<"b">>, <<"c">>>>,
      <<<<"a">>, <<" ", "b", " ">>, <<"c">>, <<"d">>, <<"e">>>>,
      <<<<>>, <<>>, <<>>, <<>>, <<>>, <<"k">>>> }

RECURSIVE RowSeqs(_)
RowSeqs(n) ==
    IF n = 0 THEN {<<>>}
    ELSE LET shorter == RowSeqs(n - 1)
         IN  shorter \cup {Append(rs, r) : rs \in {x \in shorter : Len(x) = n - 1},
                                           r \in DataRows}

Grids == {<<>>} \cup {<<h>> \o rs : h \in Headers, rs \in RowSeqs(MaxRows)}

\* One behaviour is one call: a function is applied to one argument.
ProcessCall(values) ==
    /\ last.op = "none"
    /\ last' = [op |-> "processSheetData", values |-> values,
                result |-> ProcessSheetData(values)]
    /\ UNCHANGED <<now, cacheDuration, cache, sheet, reqs, rcall, kv, hreqs>>

\* Array.prototype.slice(start, end) on a 0-based array.
Slice(data, start, end) ==
    LET len   == Len(data)
        Norm(i) == IF i < 0 THEN (IF len + i < 0 THEN 0 ELSE len + i)
                   ELSE (IF i > len THEN len ELSE i)
        from  == Norm(start)
        to    == Norm(end)
    IN  IF to <= from THEN <<>> ELSE SubSeq(data, from + 1, to)

\* Math.ceil(a / b) for a >= 0, b > 0
Ceil(a, b) == (a + b - 1) \div b

\* Mutant of PaginateData: the requested page is used without clamping.
PaginateDataUnclamped(data, page, pageSize) ==
    LET totalItems  == Len(data)
        totalPages  == IF Ceil(totalItems, pageSize) > 1
                       THEN Ceil(totalItems, pageSize) ELSE 1
        currentPage == page
        start       == (currentPage - 1) * pageSize
        end         == start + pageSize
    IN  [data |-> Slice(data, start, end),
         pagination |-> [currentPage |-> currentPage, pageSize |-> pageSize,
                         totalItems |-> totalItems, totalPages |-> totalPages,
                         hasNextPage |-> currentPage < totalPages,
                         hasPreviousPage |-> currentPage > 1]]

PaginateData(data, page, pageSize) ==
    LET totalItems  == Len(data)
        totalPages  == IF Ceil(totalItems, pageSize) > 1
                       THEN Ceil(totalItems, pageSize) ELSE 1
        lower       == IF page < totalPages THEN page ELSE totalPages
        currentPage == IF lower > 1 THEN lower ELSE 1
        start       == (currentPage - 1) * pageSize
        end         == start + pageSize
    IN  [data |-> Slice(data, start, end),
         pagination |-> [currentPage |-> currentPage, pageSize |-> pageSize,
                         totalItems |-> totalItems, totalPages |-> totalPages,
                         hasNextPage |-> currentPage < totalPages,
                         hasPreviousPage |-> currentPage > 1]]

\* Record sequences, pages and page sizes handed to paginateData.
RecordSeqs == {[i \in 1..n |-> i] : n \in 0..MaxItems}
Pages == (0 - 1)..(MaxItems + 1)
PageSizes == 1..MaxPageSize

PaginateCall(data, page, pageSize) ==
    /\ last.op = "none"
    /\ last' = [op |-> "paginateData", data |-> data, page |-> page,
                pageSize |-> pageSize,
                result |-> PaginateData(data, page, pageSize)]
    /\ UNCHANGED <<now, cacheDuration, cache, sheet, reqs, rcall, kv, hreqs>>

InitProcessor ==
    /\ now = 0
    /\ cacheDuration = DEFAULT_CACHE_DURATION
    /\ cache = EmptyCache
    /\ last = [op |-> "none"]
    /\ NodeIdle /\ RetryIdle /\ HonoIdle

NextProcessor ==
    \/ \E values \in Grids : ProcessCall(values)
    \/ \E data \in RecordSeqs, page \in Pages, pageSize \in PageSizes :
          PaginateCall(data, page, pageSize)

SpecProcessor == InitProcessor /\ [][NextProcessor]_vars

\* A data row is complete under a header row when every required field has
\* a column and the row's cell in it is non-empty after trimming.
Complete(row, headers) ==
    \A k \in DOMAIN REQUIRED_FIELDS :
        \E i \in DOMAIN headers :
            /\ headers[i] = REQUIRED_FIELDS[k]
            /\ i \in DOMAIN row
            /\ Trim(row[i]) # <<>>

\* The row numbers (header = 1) of the complete rows of a grid, ascending.
CompleteRowNumbers(values) ==
    LET IsComplete(n) == Complete(values[n], values[1])
    IN  SelectSeq([i \in 1..(Len(values) - 1) |-> i + 1], IsComplete)

\* C18: normalisation drops every data row with a blank required field,
\* keeps the others in order, and every record it emits has all five
\* required fields non-empty after trimming.
C18_EmittedRecordsAreComplete ==
    (last.op = "processSheetData" /\ last.values # <<>>) =>
        LET rows == CompleteRowNumbers(last.values)
        IN  /\ \A i \in DOMAIN last.result :
                 \A k \in DOMAIN REQUIRED_FIELDS :
                     /\ REQUIRED_FIELDS[k] \in DOMAIN last.result[i].fields
                     /\ Trim(last.result[i].fields[REQUIRED_FIELDS[k]]) # <<>>
            /\ Len(last.result) = Len(rows)
            /\ \A i \in DOMAIN rows :
                 last.result[i].fields = RowItem(last.values[rows[i]], last.values[1])

\* A grid with a complete row and a row whose only defect is a
\* whitespace-only required field has been normalised.
C18_Witness ==
    /\ last.op = "processSheetData"
    /\ last.values # <<>>
    /\ last.result # <<>>
    /\ \E n \in 2..Len(last.values) :
          /\ ~Complete(last.values[n], last.values[1])
          /\ \E i \in DOMAIN last.values[n] : last.values[n][i] = <<" ">>
          /\ \E i \in DOMAIN last.values[n] : Trim(last.values[n][i]) # <<>>

\* C19: the row index of every emitted record is the row number of its
\* source row in the input grid, the header being row 1.
C19_RowIndexIsSourceRowNumber ==
    (last.op = "processSheetData" /\ last.values # <<>>) =>
        LET rows == CompleteRowNumbers(last.values)
        IN  \A i \in DOMAIN last.result :
                i \in DOMAIN rows => last.result[i].rowIndex = rows[i]

\* C20: paginateData clamps the page, returns the slice of the clamped
\* page, reports the two flags, and pages 1..totalPages partition the
\* sequence.
RECURSIVE PagesConcat(_, _, _)
PagesConcat(data, pageSize, upTo) ==
    IF upTo = 0 THEN <<>>
    ELSE PagesConcat(data, pageSize, upTo - 1)
            \o PaginateData(data, upTo, pageSize).data

C20_PaginateClampsSlicesAndPartitions ==
    last.op = "paginateData" =>
        LET total == Len(last.data)
            s     == last.pageSize
            ceil  == CHOOSE k \in 0..total :
                        k * s >= total /\ \A j \in 0..(k - 1) : j * s < total
            tp    == IF ceil > 1 THEN ceil ELSE 1
            cp    == IF last.page < 1 THEN 1
                     ELSE IF last.page > tp THEN tp ELSE last.page
            idx   == {i \in 1..total : (cp - 1) * s < i /\ i <= cp * s}
            pg    == last.result.pagination
        IN  /\ pg.totalPages = tp
            /\ pg.totalItems = total
            /\ pg.currentPage = cp
            /\ Len(last.result.data) = Cardinality(idx)
            /\ \A i \in DOMAIN last.result.data :
                 last.result.data[i] = last.data[(cp - 1) * s + i]
            /\ pg.hasNextPage = (cp < tp)
            /\ pg.hasPreviousPage = (cp > 1)
            /\ PagesConcat(last.data, s, tp) = last.data

\* A page beyond the last one has been requested of a sequence that fills
\* more than one page.
C20_Witness ==
    /\ last.op = "paginateData"
    /\ Len(last.data) > last.pageSize
    /\ last.page > last.result.pagination.totalPages
    /\ last.result.data # <<>>

(***************************************************************************)
(* SpecSearch: parseTimestamp, sortByTimestamp, searchData and             *)
(* advancedSearch of both backends.  A date or timestamp string is kept by *)
(* its form and its numbers: "dmy" is DD/MM/YYYY (with time >= 0 when a    *)
(* HH:mm:ss part follows, -1 when none), "iso" is YYYY-MM-DD, "text" is    *)
(* any other non-empty text and "empty" the empty string.  An instant is   *)
(* a day number since the epoch and a second of that day; NaN is the       *)
(* invalid Date.                                                           *)
(***************************************************************************)
SecondsPerDay == 86400
EndOfDay == 86399          \* 23:59:59
Year2025 == 20089          \* day number of 2025-01-01
JakartaOffset == 7 * 3600  \* a host zone ahead of UTC (UTC+7)

Instant(day, sec) == [valid |-> TRUE, day |-> day, sec |-> sec]
NaN == [valid |-> FALSE, day |-> 0, sec |-> 0]
Epoch == Instant(0, 0)
FarPast == Instant(0 - 25567, 0)   \* new Date('1900-01-01')
FarFuture == Instant(47846, 0)     \* new Date('2100-12-31')

EmptyText == [form |-> "empty"]
SomeText == [form |-> "text"]
Dmy(d, m, time) == [form |-> "dmy", d |-> d, m |-> m, time |-> time]
Iso(d, m) == [form |-> "iso", d |-> d, m |-> m]

\* Midnight UTC of day d of month m of 2025, for January and February.
UtcMidnight(d, m) == Instant(Year2025 + (m - 1) * 31 + (d - 1), 0)

\* A date-time without offset is read in the zone of the process, which is
\* tz seconds ahead of UTC.
LocalInstant(d, m, time, tz) ==
    LET day == UtcMidnight(d, m).day
    IN  IF time - tz < 0 THEN Instant(day - 1, time - tz + SecondsPerDay)
        ELSE Instant(day, time - tz)

\* parseTimestamp: DD/MM/YYYY[ HH:mm:ss] in local time, the epoch otherwise.
ParseTimestamp(ts, tz) ==
    IF ts.form = "dmy"
    THEN LocalInstant(ts.d, ts.m, IF ts.time < 0 THEN 0 ELSE ts.time, tz)
    ELSE Epoch

\* new Date(string) of the Node runtime: a date-only ISO string is UTC
\* midnight; a slash-separated date is read month first in local time and
\* is invalid when that month exceeds 12.
NewDate(text, tz) ==
    CASE text.form = "iso" -> UtcMidnight(text.d, text.m)
      [] text.form = "dmy" ->
            IF text.d <= 12 THEN LocalInstant(text.m, text.d, 0, tz) ELSE NaN
      [] OTHER -> NaN

\* a <= b on Date values: false when either is invalid.
DateLeq(a, b) ==
    /\ a.valid /\ b.valid
    /\ (a.day < b.day \/ (a.day = b.day /\ a.sec <= b.sec))

\* item[name] || ''
FieldOr(item, name) == IF name \in DOMAIN item THEN item[name] ELSE <<>>

\* searchData: the term is looked for in the name fields; the date, time
\* and timestamp fields hold digits and separators only, which no term of
\* the model contains.
SearchData(data, searchTerm) ==
    IF searchTerm = <<>> THEN data
    ELSE LET term == Trim(ToLowerCase(searchTerm))
             Hit(item) ==
                 \/ Includes(ToLowerCase(FieldOr(item, "Nama Tentor")), term)
                 \/ Includes(ToLowerCase(FieldOr(item, "Nama Siswa")), term)
         IN  IF term = <<>> THEN data ELSE SelectSeq(data, Hit)

\* The teacher and student filters of the Express backend.
NodeNameFilters(data, c) ==
    LET TeacherHit(item) ==
            Includes(ToLowerCase(FieldOr(item, "Nama Tentor")),
                     Trim(ToLowerCase(c.teacher)))
        StudentHit(item) ==
            Includes(ToLowerCase(FieldOr(item, "Nama Siswa")),
                     Trim(ToLowerCase(c.student)))
        byTeacher == IF c.teacher # <<>> THEN SelectSeq(data, TeacherHit) ELSE data
    IN  IF c.student # <<>> THEN SelectSeq(byTeacher, StudentHit) ELSE byTeacher

\* The teacher and student filters of the Workers backend.
HonoNameFilters(data, c) ==
    LET term == Trim(ToLowerCase(c.teacher))
        EitherHit(item) ==
            \/ Includes(ToLowerCase(FieldOr(item, "Nama Tentor")), term)
            \/ Includes(ToLowerCase(FieldOr(item, "Nama Siswa")), term)
        TeacherHit(item) ==
            Includes(ToLowerCase(FieldOr(item, "Nama Tentor")), term)
        StudentHit(item) ==
            Includes(ToLowerCase(FieldOr(item, "Nama Siswa")),
                     Trim(ToLowerCase(c.student)))
    IN  IF c.teacher # <<>> /\ c.student = <<>> THEN SelectSeq(data, EitherHit)
        ELSE IF c.teacher # <<>> THEN SelectSeq(data, TeacherHit)
        ELSE IF c.student # <<>> THEN SelectSeq(data, StudentHit)
        ELSE data

\* The range bounds of the Express backend: new Date(dateFrom / dateTo).
NodeFromDate(c, tz) ==
    IF c.dateFrom.form # "empty" THEN NewDate(c.dateFrom, tz) ELSE FarPast

NodeToDate(c, tz) ==
    IF c.dateTo.form # "empty" THEN NewDate(c.dateTo, tz) ELSE FarFuture

\* The range bounds of the Workers backend: either form is rewritten to
\* DD/MM/YYYY plus a time of day and handed to parseTimestamp.
HonoBound(text, time, tz) ==
    CASE text.form = "dmy" -> ParseTimestamp(Dmy(text.d, text.m, time), tz)
      [] text.form = "iso" -> ParseTimestamp(Dmy(text.d, text.m, time), tz)
      [] OTHER -> Epoch

HonoFromDate(c, tz) ==
    IF c.dateFrom.form # "empty" THEN HonoBound(c.dateFrom, 0, tz) ELSE FarPast

HonoToDate(c, tz) ==
    IF c.dateTo.form # "empty" THEN HonoBound(c.dateTo, EndOfDay, tz) ELSE FarFuture

DateRangeFilter(data, c, fromDate, toDate, tz) ==
    LET InRange(item) ==
            LET itemDate == ParseTimestamp(item["Timestamp"], tz)
            IN  DateLeq(fromDate, itemDate) /\ DateLeq(itemDate, toDate)
    IN  IF c.dateFrom.form # "empty" \/ c.dateTo.form # "empty"
        THEN SelectSeq(data, InRange) ELSE data

\* advancedSearch of the backend `variant`, run in a process tz seconds
\* ahead of UTC.
AdvancedSearch(variant, data, c, tz) ==
    LET searched == IF c.search # <<>> THEN SearchData(data, c.search) ELSE data
    IN  IF variant = "node"
        THEN DateRangeFilter(NodeNameFilters(searched, c), c,
                             NodeFromDate(c, tz), NodeToDate(c, tz), tz)
        ELSE DateRangeFilter(HonoNameFilters(searched, c), c,
                             HonoFromDate(c, tz), HonoToDate(c, tz), tz)

\* Mutant of SortedInsert: ascending order.
SortedInsertAscending(sorted, item, tz) ==
    LET key == ParseTimestamp(item["Timestamp"], tz)
        n   == Cardinality({i \in DOMAIN sorted :
                              DateLeq(ParseTimestamp(sorted[i]["Timestamp"], tz), key)})
    IN  SubSeq(sorted, 1, n) \o <<item>> \o SubSeq(sorted, n + 1, Len(sorted))

\* One step of the stable sort with comparator dateB - dateA: the item goes
\* behind every element that is not older than it.
SortedInsert(sorted, item, tz) ==
    LET key == ParseTimestamp(item["Timestamp"], tz)
        n   == Cardinality({i \in DOMAIN sorted :
                              DateLeq(key, ParseTimestamp(sorted[i]["Timestamp"], tz))})
    IN  SubSeq(sorted, 1, n) \o <<item>> \o SubSeq(sorted, n + 1, Len(sorted))

\* sortByTimestamp: [...data].sort(...), a sorted copy.
RECURSIVE SortByTimestamp(_, _)
SortByTimestamp(data, tz) ==
    IF data = <<>> THEN <<>>
    ELSE SortedInsert(SortByTimestamp(SubSeq(data, 1, Len(data) - 1), tz),
                      data[Len(data)], tz)

MaxSearchRecords == 2   \* records handed to advancedSearch
MaxSortRecords == 3     \* records handed to sortByTimestamp

John == <<"J", "o", "h", "n">>
Mary == <<"M", "a", "r", "y">>
Ana == <<"A", "n", "a">>

Record(tentor, siswa, ts) ==
    [f \in {"Nama Tentor", "Nama Siswa", "Timestamp"} |->
        CASE f = "Nama Tentor" -> tentor
          [] f = "Nama Siswa"  -> siswa
          [] OTHER             -> ts]

SearchRecords ==
    { Record(Mary, John, Dmy(15, 1, 36000)),
      Record(John, Ana, Dmy(15, 1, EndOfDay)),
      Record(Mary, Ana, Dmy(16, 1, 0)),
      Record(Mary, Ana, Dmy(2, 1, 36000)) }

SortRecords ==
    { Record(Mary, Ana, Dmy(15, 1, 36000)),
      Record(John, Ana, Dmy(15, 1, 36000)),
      Record(Mary, John, Dmy(16, 1, 0)),
      Record(John, John, SomeText),
      Record(Ana, Ana, EmptyText) }

RECURSIVE SeqsUpTo(_, _)
SeqsUpTo(S, n) ==
    IF n = 0 THEN {<<>>}
    ELSE LET shorter == SeqsUpTo(S, n - 1)
         IN  shorter \cup {Append(q, x) : q \in {y \in shorter : Len(y) = n - 1},
                                          x \in S}

DateTexts == {EmptyText, Iso(15, 1), Dmy(15, 1, 0 - 1), Dmy(2, 1, 0 - 1)}

Criteria ==
    [search : {<<>>, <<"a", "n", "a">>}, teacher : {<<>>, John},
     student : {<<>>, <<"a", "n", "a">>},
     dateFrom : DateTexts, dateTo : DateTexts]

\* The Workers runtime keeps UTC; the Node process runs in the zone of its
\* host.
Zones(variant) == IF variant = "node" THEN {0, JakartaOffset} ELSE {0}

AdvancedSearchCall(variant, data, c, tz) ==
    /\ last.op = "none"
    /\ last' = [op |-> "advancedSearch", variant |-> variant, data |-> data,
                criteria |-> c, tz |-> tz,
                result |-> AdvancedSearch(variant, data, c, tz)]
    /\ UNCHANGED <<now, cacheDuration, cache, sheet, reqs, rcall, kv, hreqs>>

SortCall(data, tz) ==
    /\ last.op = "none"
    /\ last' = [op |-> "sortByTimestamp", data |-> data, after |-> data,
                tz |-> tz, result |-> SortByTimestamp(data, tz)]
    /\ UNCHANGED <<now, cacheDuration, cache, sheet, reqs, rcall, kv, hreqs>>

InitSearch == InitProcessor

NextSearch ==
    \/ \E variant \in {"node", "cfw"}, c \in Criteria :
         \E data \in SeqsUpTo(SearchRecords, MaxSearchRecords),
            tz \in Zones(variant) : AdvancedSearchCall(variant, data, c, tz)
    \/ \E data \in SeqsUpTo(SortRecords, MaxSortRecords), tz \in {0, JakartaOffset} :
         SortCall(data, tz)

SpecSearch == InitSearch /\ [][NextSearch]_vars

\* The term occurs in the text, letter case ignored.
Mentions(text, term) == Includes(ToLowerCase(text), Trim(ToLowerCase(term)))

\* C21: advanced search with a teacher term and no student term keeps every
\* record whose teacher field or student field contains the term.
C21_TeacherOnlySearchesBothNameFields ==
    (/\ last.op = "advancedSearch"
     /\ last.criteria.teacher # <<>> /\ last.criteria.student = <<>>
     /\ last.criteria.search = <<>>
     /\ last.criteria.dateFrom = EmptyText /\ last.criteria.dateTo = EmptyText) =>
        \A i \in DOMAIN last.data :
            (\/ Mentions(last.data[i]["Nama Tentor"], last.criteria.teacher)
             \/ Mentions(last.data[i]["Nama Siswa"], last.criteria.teacher))
            => \E j \in DOMAIN last.result : last.result[j] = last.data[i]

\* Day number of a date of 2025 (January, February).
DayKey(text) == (text.m - 1) * 31 + text.d

\* C22: with dateFrom and/or dateTo in either form and no other criterion,
\* exactly the records stamped from dateFrom 00:00:00 to dateTo 23:59:59
\* are kept; an omitted bound is unbounded.
C22_DateRangeIsInclusiveInEitherForm ==
    (/\ last.op = "advancedSearch"
     /\ last.criteria.teacher = <<>> /\ last.criteria.student = <<>>
     /\ last.criteria.search = <<>>
     /\ (last.criteria.dateFrom # EmptyText \/ last.criteria.dateTo # EmptyText)) =>
        LET InDays(item) ==
                /\ last.criteria.dateFrom # EmptyText =>
                      DayKey(last.criteria.dateFrom) <= DayKey(item["Timestamp"])
                /\ last.criteria.dateTo # EmptyText =>
                      DayKey(item["Timestamp"]) <= DayKey(last.criteria.dateTo)
        IN  last.result = SelectSeq(last.data, InDays)

\* How often x occurs in the sequence q.
Occurrences(q, x) == Cardinality({i \in DOMAIN q : q[i] = x})

\* The timestamp of the record does not parse.
Unparseable(item) == item["Timestamp"].form # "dmy"

\* C28: sortByTimestamp returns a permutation of its input ordered by parsed
\* timestamp descending, records without a parseable timestamp last; it
\* leaves its input as it was, and sorting its output changes nothing.
C28_SortIsDescendingPermutationAndIdempotent ==
    last.op = "sortByTimestamp" =>
        LET out    == last.result
            Key(i) == ParseTimestamp(out[i]["Timestamp"], last.tz)
        IN  /\ Len(out) = Len(last.data)
            /\ \A i \in DOMAIN last.data :
                 Occurrences(out, last.data[i]) = Occurrences(last.data, last.data[i])
            /\ \A i, j \in DOMAIN out : i < j => DateLeq(Key(j), Key(i))
            /\ \A i, j \in DOMAIN out :
                 (Unparseable(out[i]) /\ ~Unparseable(out[j])) => j < i
            /\ last.after = last.data
            /\ SortByTimestamp(out, last.tz) = out

\* An unsorted input that starts with an unparseable timestamp and holds
\* two records of one instant has been sorted.
C28_Witness ==
    /\ last.op = "sortByTimestamp"
    /\ Len(last.data) = 3
    /\ Unparseable(last.data[1])
    /\ last.result # last.data
    /\ \E i, j \in DOMAIN last.data :
          /\ i # j /\ last.data[i] # last.data[j]
          /\ ~Unparseable(last.data[i])
          /\ last.data[i]["Timestamp"] = last.data[j]["Timestamp"]

(***************************************************************************)
(* SpecFetch: one invocation of GoogleSheetsService.fetchData, the status  *)
(* request, and the page parameters a request hands on.  `last` keeps the  *)
(* invocation: its position pc, the remote calls issued so far (calls),    *)
(* the outcome of each finished call (outcomes; each is what _retryRequest *)
(* returned or threw after its attempts), and what the invocation returned *)
(* or threw.                                                               *)
(***************************************************************************)
BATCH_SIZE == 5000
MIN_BUFFER == 200          \* Math.max(recordsToFetch * 0.5, 200)
FALLBACK_ROWS == 20000     \* this.lastKnownRowCount || 20000
MISSING_CONFIG == "Missing Google Sheets configuration"

\* Mutant of RowsToFetch: the buffer is the smaller of the two amounts.
RowsToFetchSmallerBuffer(page, pageSize) ==
    LET recordsToFetch == page * pageSize
        twiceBuffer    == IF recordsToFetch < 2 * MIN_BUFFER
                          THEN recordsToFetch ELSE 2 * MIN_BUFFER
    IN  (2 * recordsToFetch + twiceBuffer + 1) \div 2

\* Math.ceil(recordsToFetch + Math.max(recordsToFetch * 0.5, 200)), computed
\* on the doubled values to stay in the integers.
RowsToFetch(page, pageSize) ==
    LET recordsToFetch == page * pageSize
        twiceBuffer    == IF recordsToFetch > 2 * MIN_BUFFER
                          THEN recordsToFetch ELSE 2 * MIN_BUFFER
    IN  (2 * recordsToFetch + twiceBuffer + 1) \div 2

\* Mutant of BatchStartRow: a batch may start at the header row.
BatchStartRowFromHeader(topRow) ==
    IF topRow - BATCH_SIZE + 1 > 1 THEN topRow - BATCH_SIZE + 1 ELSE 1

\* Math.max(2, topRow - BATCH_SIZE + 1)
BatchStartRow(topRow) ==
    IF topRow - BATCH_SIZE + 1 > 2 THEN topRow - BATCH_SIZE + 1 ELSE 2

\* The loop that builds `ranges`: one block per iteration, from the bottom
\* of the sheet upward.
RECURSIVE PlanRanges(_, _, _)
PlanRanges(topRow, rowsCollected, rowsToFetch) ==
    IF topRow > 1 /\ rowsCollected < rowsToFetch
    THEN <<[startRow |-> BatchStartRow(topRow), topRow |-> topRow]>>
            \o PlanRanges(topRow - BATCH_SIZE, rowsCollected + BATCH_SIZE, rowsToFetch)
    ELSE <<>>

\* fetchData up to its first await: _init (the constructor in the Workers
\* backend) throws when the document id or the API key is missing;
\* otherwise the estimate is computed and the header lookup is issued.
FetchEntry(variant, hasSheetId, hasApiKey, page, pageSize, fetchAll) ==
    LET base == [op |-> "fetchData", variant |-> variant,
                 hasSheetId |-> hasSheetId, hasApiKey |-> hasApiKey,
                 page |-> page, pageSize |-> pageSize, fetchAll |-> fetchAll,
                 rowsToFetch |-> 0, totalRows |-> 0, ranges |-> <<>>,
                 calls |-> <<>>, outcomes |-> <<>>, stride |-> 0, merged |-> <<>>,
                 pc |-> "failed", returned |-> "nothing", error |-> MISSING_CONFIG]
    IN  IF ~hasSheetId \/ ~hasApiKey THEN base
        ELSE [base EXCEPT !.rowsToFetch = IF fetchAll THEN 0 - 1
                                          ELSE RowsToFetch(page, pageSize),
                          !.calls = <<"headers">>,
                          !.pc = "headers", !.error = ""]

\* Mutant of AfterHeaders: a missing header row does not end the invocation.
AfterHeadersIgnoresMissingRow(f, outcome) ==
    CASE outcome = "error" ->
            [f EXCEPT !.outcomes = Append(@, "error"), !.pc = "failed",
                      !.error = "Google Sheets request failed"]
      [] OTHER ->
            [f EXCEPT !.outcomes = Append(@, outcome),
                      !.calls = Append(@, "rowCount"), !.pc = "rowCount"]

\* After `await this._fetchHeaders(...)`: `values` with a header row, a
\* response without `values`, or the error _retryRequest threw.
AfterHeaders(f, outcome) ==
    CASE outcome = "error" ->
            [f EXCEPT !.outcomes = Append(@, "error"), !.pc = "failed",
                      !.error = "Google Sheets request failed"]
      [] outcome = "noValues" ->
            [f EXCEPT !.outcomes = Append(@, "noValues"), !.pc = "done",
                      !.returned = "empty list"]
      [] OTHER ->
            [f EXCEPT !.outcomes = Append(@, "headers"),
                      !.calls = Append(@, "rowCount"), !.pc = "rowCount"]

\* Mutant of AfterRowCount: fetchAll does not replace the placeholder.
AfterRowCountKeepsPlaceholder(f, outcome, totalRows) ==
    IF outcome = "error"
    THEN [f EXCEPT !.outcomes = Append(@, "error"), !.pc = "failed",
                   !.error = "Google Sheets request failed"]
    ELSE LET rows   == IF outcome = "notListed" /\ totalRows = 0
                       THEN FALLBACK_ROWS ELSE totalRows
             ranges == PlanRanges(rows, 0, f.rowsToFetch)
         IN  [f EXCEPT !.outcomes = Append(@, outcome), !.totalRows = rows,
                       !.ranges = ranges,
                       !.calls = IF ranges # <<>> THEN Append(@, "batchGet") ELSE @,
                       !.pc = IF ranges # <<>> THEN "batch" ELSE "done",
                       !.returned = IF ranges # <<>> THEN "nothing" ELSE "empty list"]

\* Mutant of AfterRowCount: a failed row-count lookup falls back to the
\* default row count and goes on.
AfterRowCountSwallowsError(f, outcome, totalRows) ==
    LET rows   == IF outcome = "error" THEN FALLBACK_ROWS ELSE totalRows
        needed == IF f.fetchAll THEN rows - 1 ELSE f.rowsToFetch
        ranges == PlanRanges(rows, 0, needed)
    IN  [f EXCEPT !.outcomes = Append(@, outcome), !.totalRows = rows,
                  !.rowsToFetch = needed, !.ranges = ranges,
                  !.calls = IF ranges # <<>> THEN Append(@, "batchGet") ELSE @,
                  !.pc = IF ranges # <<>> THEN "batch" ELSE "done",
                  !.returned = IF ranges # <<>> THEN "nothing" ELSE "empty list"]

\* After `await this._getTotalRows(...)`: the row count of the sheet
\* ("listed"), the last known row count or the fallback when the sheet is
\* not listed (totalRows is then lastKnownRowCount), or the error; on
\* success the ranges are planned and, when there are any, the batch call
\* is issued.
AfterRowCount(f, outcome, totalRows) ==
    IF outcome = "error"
    THEN [f EXCEPT !.outcomes = Append(@, "error"), !.pc = "failed",
                   !.error = "Google Sheets request failed"]
    ELSE LET rows   == IF outcome = "notListed" /\ totalRows = 0
                       THEN FALLBACK_ROWS ELSE totalRows
             needed == IF f.fetchAll THEN rows - 1 ELSE f.rowsToFetch
             ranges == PlanRanges(rows, 0, needed)
         IN  [f EXCEPT !.outcomes = Append(@, outcome), !.totalRows = rows,
                       !.rowsToFetch = needed, !.ranges = ranges,
                       !.calls = IF ranges # <<>> THEN Append(@, "batchGet") ELSE @,
                       !.pc = IF ranges # <<>> THEN "batch" ELSE "done",
                       !.returned = IF ranges # <<>> THEN "nothing" ELSE "empty list"]

\* The sheet's contents: a data row is a valid record when its number falls
\* in the first ValidRun rows of a stride; every other row fails
\* processSheetData's tests.  A row is represented by its number.
ValidRun == 4
Strides == {1250, 2500}
ValidRow(row, stride) == row % stride < ValidRun

\* `values` of one value range of the batchGet response: the rows of the
\* range, top-down.
RangeValues(range) ==
    [i \in 1..(range.topRow - range.startRow + 1) |-> range.startRow + i - 1]

\* Array.prototype.reverse
Reverse(rows) == LET n == Len(rows) IN [i \in 1..n |-> rows[n + 1 - i]]

\* Mutant of BatchData: the rows of a batch are not reversed.
BatchDataTopDown(range, stride) ==
    LET Kept(row) == ValidRow(row, stride)
    IN  SelectSeq(RangeValues(range), Kept)

\* One pass of the merge loop: the batch reversed, then processSheetData,
\* which keeps the valid rows in the order given.
BatchData(range, stride) ==
    LET Kept(row) == ValidRow(row, stride)
    IN  SelectSeq(Reverse(RangeValues(range)), Kept)

\* The merge loop over valueRanges, which come in the order of `ranges`:
\* allData.push(...batchData) for each.
RECURSIVE MergeBatches(_, _)
MergeBatches(ranges, stride) ==
    IF ranges = <<>> THEN <<>>
    ELSE BatchData(Head(ranges), stride) \o MergeBatches(Tail(ranges), stride)

\* After the batchGet call: the merged records (sorted before they are
\* returned) or the error.
AfterBatch(f, outcome, stride) ==
    IF outcome = "error"
    THEN [f EXCEPT !.outcomes = Append(@, "error"), !.pc = "failed",
                   !.error = "Google Sheets request failed"]
    ELSE [f EXCEPT !.outcomes = Append(@, "values"), !.pc = "done",
                   !.stride = stride,
                   !.merged = MergeBatches(f.ranges, stride),
                   !.returned = "records"]

FetchPages == {1, 3}
FetchPageSizes == {15, 100, 167, 1000}
SheetRows == {0, 1, 2, 3, 4999, 5000, 5001, 5002, 10001, 10002, 12000}

FetchDataStart(variant, hasSheetId, hasApiKey, page, pageSize, fetchAll) ==
    /\ last.op = "none"
    /\ last' = FetchEntry(variant, hasSheetId, hasApiKey, page, pageSize, fetchAll)
    /\ UNCHANGED <<now, cacheDuration, cache, sheet, reqs, rcall, kv, hreqs>>

HeadersReturn(outcome) ==
    /\ last.op = "fetchData" /\ last.pc = "headers"
    /\ last' = AfterHeaders(last, outcome)
    /\ UNCHANGED <<now, cacheDuration, cache, sheet, reqs, rcall, kv, hreqs>>

RowCountReturn(outcome, totalRows) ==
    /\ last.op = "fetchData" /\ last.pc = "rowCount"
    /\ last' = AfterRowCount(last, outcome, totalRows)
    /\ UNCHANGED <<now, cacheDuration, cache, sheet, reqs, rcall, kv, hreqs>>

BatchReturn(outcome, stride) ==
    /\ last.op = "fetchData" /\ last.pc = "batch"
    /\ last' = AfterBatch(last, outcome, stride)
    /\ UNCHANGED <<now, cacheDuration, cache, sheet, reqs, rcall, kv, hreqs>>

\* A JavaScript number: an integer value or NaN.
Num(n) == [nan |-> FALSE, v |-> n]
NotANumber == [nan |-> TRUE, v |-> 0]
MAX_PAGE_SIZE == 1000

\* The texts a request carries for page and pageSize; "absent" stands for a
\* parameter that is not sent.
ParamTexts == {"absent", "", "0", "-5", "abc", "3", "2.7", "5000"}

\* parseInt(text)
ParseInt(text) ==
    CASE text = "0" -> Num(0) [] text = "-5" -> Num(0 - 5) [] text = "3" -> Num(3)
      [] text = "2.7" -> Num(2) [] text = "5000" -> Num(5000)
      [] OTHER -> NotANumber

\* x || d on numbers: NaN and 0 are falsy.
OrElse(x, d) == IF x.nan \/ x.v = 0 THEN Num(d) ELSE x

\* Math.max(n, x) and Math.min(n, x): NaN when x is NaN.
MathMax(n, x) == IF x.nan THEN x ELSE IF x.v > n THEN x ELSE Num(n)
MathMin(n, x) == IF x.nan THEN x ELSE IF x.v < n THEN x ELSE Num(n)

Handed(fetchPage, fetchPageSize, page, pageSize) ==
    [rejected |-> FALSE, fetchPage |-> fetchPage, fetchPageSize |-> fetchPageSize,
     paginatePage |-> page, paginatePageSize |-> pageSize]

Rejected ==
    [rejected |-> TRUE, fetchPage |-> NotANumber, fetchPageSize |-> NotANumber,
     paginatePage |-> NotANumber, paginatePageSize |-> NotANumber]

\* Express: GET /data, POST /data/query and GET /search validate alike.
NodeParams(pageText, sizeText) ==
    LET page     == MathMax(1, OrElse(ParseInt(pageText), 1))
        pageSize == MathMin(MAX_PAGE_SIZE,
                            MathMax(1, OrElse(ParseInt(sizeText), DEFAULT_PAGE_SIZE)))
    IN  Handed(page, pageSize, page, pageSize)

\* Workers GET /data: the query schema accepts every string; the controller
\* reads the raw query, defaults only an absent parameter and clamps with
\* Math.max / Math.min.
HonoDataParams(pageText, sizeText) ==
    LET page     == ParseInt(IF pageText = "absent" THEN "1" ELSE pageText)
        pageSize == IF sizeText = "absent" THEN Num(DEFAULT_PAGE_SIZE)
                    ELSE ParseInt(sizeText)
        p        == MathMax(1, page)
        ps       == MathMin(MAX_PAGE_SIZE, MathMax(1, pageSize))
    IN  Handed(p, ps, p, ps)

\* A JSON number the body schema accepts: a positive integer.
PositiveInt(text) == text \in {"3", "5000"}

\* Workers POST /data/query: the body schema rejects what is not a positive
\* integer (pageSize above 1000 too) and lets an absent value pass; the
\* controller reads the raw body, where an absent value is undefined.
HonoQueryParams(pageText, sizeText) ==
    IF \/ pageText # "absent" /\ ~PositiveInt(pageText)
       \/ sizeText # "absent" /\ sizeText # "3"
    THEN Rejected
    ELSE LET p  == MathMax(1, ParseInt(pageText))
             ps == MathMin(MAX_PAGE_SIZE, MathMax(1, ParseInt(sizeText)))
         IN  Handed(p, ps, p, ps)

\* Workers GET /search: the parsed values are used as they are; the fetcher
\* gets MAX_PAGE_SIZE as its page size.
HonoSearchParams(pageText, sizeText) ==
    LET page     == ParseInt(IF pageText \in {"absent", ""} THEN "1" ELSE pageText)
        pageSize == IF sizeText \in {"absent", ""} THEN Num(DEFAULT_PAGE_SIZE)
                    ELSE ParseInt(sizeText)
    IN  Handed(page, Num(MAX_PAGE_SIZE), page, pageSize)

RequestParams(variant, endpoint, pageText, sizeText) ==
    CASE variant = "node" -> NodeParams(pageText, sizeText)
      [] endpoint = "data" -> HonoDataParams(pageText, sizeText)
      [] endpoint = "query" -> HonoQueryParams(pageText, sizeText)
      [] OTHER -> HonoSearchParams(pageText, sizeText)

ParamsCall(variant, endpoint, pageText, sizeText) ==
    /\ last.op = "none"
    /\ last' = [op |-> "params", variant |-> variant, endpoint |-> endpoint,
                pageText |-> pageText, sizeText |-> sizeText,
                handed |-> RequestParams(variant, endpoint, pageText, sizeText)]
    /\ UNCHANGED <<now, cacheDuration, cache, sheet, reqs, rcall, kv, hreqs>>

\* Document ids and API keys of the configurations explored; <<>> is a
\* variable that is not set.
SheetIdA == <<"1", "B", "x", "i", "M", "V", "s", "0", "X", "R", "a", "5">>
SheetIdB == <<"1", "B", "x", "i", "M", "V", "s", "0", "X", "R", "z", "9">>
SheetIds == {<<>>, SheetIdA, SheetIdB}
ApiKeys == {<<>>, <<"k", "1">>, <<"k", "2">>}
ID_PREFIX == 10
BaseURL == <<"https://sheets.googleapis.com/v4/spreadsheets">>
DefaultRange == "Sheet1!A:E"

\* String.prototype.substring(0, n)
Substring(text, n) == SubSeq(text, 1, IF Len(text) < n THEN Len(text) ELSE n)

\* GoogleSheetsService.getStatus of a configured service.
GetStatus(sheetId) ==
    [configured |-> TRUE,
     sheetId |-> Substring(sheetId, ID_PREFIX) \o <<"...">>,
     range |-> DefaultRange,
     apiUrl |-> BaseURL \o <<"/">> \o sheetId]

\* GET /api/status.  Express: getStatus catches the error of _init and
\* reports it.  Workers: the services middleware constructs the service,
\* whose constructor throws, and the global error handler answers.
StatusResponse(variant, sheetId, apiKey) ==
    IF sheetId # <<>> /\ apiKey # <<>>
    THEN [status |-> 200, googleSheets |-> GetStatus(sheetId)]
    ELSE IF variant = "node"
    THEN [status |-> 200,
          googleSheets |-> [configured |-> FALSE, error |-> MISSING_CONFIG,
                            sheetId |-> <<"Not configured">>,
                            range |-> "Not configured",
                            apiUrl |-> <<"Not configured">>]]
    ELSE [status |-> 503,
          message |-> "External service unavailable - Google Sheets API issue"]

NoStatus == [op |-> "none"]

\* Up to two status requests, each of a deployment with its own
\* configuration; the earlier one is kept for comparison.
StatusCall(variant, sheetId, apiKey) ==
    /\ last.op = "none" \/ (last.op = "status" /\ last.prev.op = "none")
    /\ last' = [op |-> "status", variant |-> variant, sheetId |-> sheetId,
                apiKey |-> apiKey,
                response |-> StatusResponse(variant, sheetId, apiKey),
                prev |-> IF last.op = "none" THEN NoStatus
                         ELSE [op |-> "status", variant |-> last.variant,
                               sheetId |-> last.sheetId, apiKey |-> last.apiKey,
                               response |-> last.response]]
    /\ UNCHANGED <<now, cacheDuration, cache, sheet, reqs, rcall, kv, hreqs>>

InitFetch == InitProcessor

NextFetch ==
    \/ \E variant \in {"node", "cfw"}, hasSheetId \in BOOLEAN, hasApiKey \in BOOLEAN :
         \E page \in FetchPages, pageSize \in FetchPageSizes, fetchAll \in BOOLEAN :
            FetchDataStart(variant, hasSheetId, hasApiKey, page, pageSize, fetchAll)
    \/ \E outcome \in {"headers", "noValues", "error"} : HeadersReturn(outcome)
    \/ \E outcome \in {"listed", "notListed", "error"}, totalRows \in SheetRows :
         RowCountReturn(outcome, totalRows)
    \/ \E outcome \in {"values", "error"}, stride \in Strides :
         BatchReturn(outcome, stride)
    \/ \E variant \in {"node", "cfw"}, sheetId \in SheetIds, apiKey \in ApiKeys :
         StatusCall(variant, sheetId, apiKey)
    \/ \E variant \in {"node", "cfw"}, endpoint \in {"data", "query", "search"} :
         \E pageText \in ParamTexts, sizeText \in ParamTexts :
            ParamsCall(variant, endpoint, pageText, sizeText)

SpecFetch == InitFetch /\ [][NextFetch]_vars

\* C23: when the header lookup succeeds without a header row, fetchData
\* returns the empty list, raises nothing and has issued no other call.
C23_NoHeaderRowYieldsEmptyList ==
    (last.op = "fetchData" /\ Len(last.outcomes) >= 1
        /\ last.outcomes[1] = "noValues") =>
        /\ last.pc = "done"
        /\ last.returned = "empty list"
        /\ last.error = ""
        /\ last.calls = <<"headers">>

\* The header lookup of an invocation has answered without a header row.
C23_Witness ==
    /\ last.op = "fetchData"
    /\ last.outcomes = <<"noValues">>
    /\ last.pc = "done"

\* C24: with the document id or the API key missing, a fetch attempt fails
\* with the missing-configuration error before any remote call, and a
\* status request reports configured = false.
C24_MissingConfigurationIsReported ==
    /\ (last.op = "fetchData" /\ (~last.hasSheetId \/ ~last.hasApiKey)) =>
          /\ last.pc = "failed"
          /\ last.error = MISSING_CONFIG
          /\ last.calls = <<>>
    /\ (last.op = "status" /\ (last.sheetId = <<>> \/ last.apiKey = <<>>)) =>
          /\ last.response.status = 200
          /\ last.response.googleSheets.configured = FALSE

\* Two document ids that agree on their first ten characters.
SamePrefix(a, b) == Substring(a, ID_PREFIX) = Substring(b, ID_PREFIX)

\* C25: two configurations that differ only in the document-id characters
\* after the tenth, or only in the API key, get the same status output.
C25_StatusHidesIdTailAndKey ==
    (/\ last.op = "status" /\ last.prev.op = "status"
     /\ last.variant = last.prev.variant
     /\ last.sheetId # <<>> /\ last.prev.sheetId # <<>>
     /\ last.apiKey # <<>> /\ last.prev.apiKey # <<>>
     /\ \/ (SamePrefix(last.sheetId, last.prev.sheetId)
               /\ last.apiKey = last.prev.apiKey)
        \/ last.sheetId = last.prev.sheetId) =>
        last.response = last.prev.response

\* An integer value within [lo, hi].
IntWithin(x, lo, hi) == ~x.nan /\ lo <= x.v /\ x.v <= hi

\* C26: whatever page and pageSize a request carries, the values handed to
\* the fetcher and to pagination are integers with page >= 1 and
\* 1 <= pageSize <= 1000.
C26_HandedPageParametersAreValid ==
    (last.op = "params" /\ ~last.handed.rejected) =>
        /\ ~last.handed.fetchPage.nan /\ last.handed.fetchPage.v >= 1
        /\ ~last.handed.paginatePage.nan /\ last.handed.paginatePage.v >= 1
        /\ IntWithin(last.handed.fetchPageSize, 1, 1000)
        /\ IntWithin(last.handed.paginatePageSize, 1, 1000)

\* C27: without fetchAll the rows to fetch are
\* ceil(page * pageSize + max(0.5 * page * pageSize, 200)), 500 for page 3
\* and pageSize 100.
C27_RowsToFetchIsEstimatePlusBuffer ==
    (last.op = "fetchData" /\ ~last.fetchAll /\ last.calls # <<>>) =>
        LET records == last.page * last.pageSize
            twice   == 2 * records + (IF records >= 400 THEN records ELSE 400)
        IN  /\ 2 * last.rowsToFetch >= twice
            /\ 2 * (last.rowsToFetch - 1) < twice
            /\ (last.page = 3 /\ last.pageSize = 100) => last.rowsToFetch = 500

\* fetchData has estimated the rows for page 3 of size 100.
C27_Witness ==
    /\ last.op = "fetchData" /\ ~last.fetchAll
    /\ last.page = 3 /\ last.pageSize = 100
    /\ last.calls # <<>>

\* C29: the remote calls of an invocation are the header lookup, then the
\* row-count lookup, then the batch call, each issued only after the ones
\* before it succeeded; after a failed call no further call is issued and
\* the invocation has failed.
C29_CallsInOrderAndFailureEndsInvocation ==
    last.op = "fetchData" =>
        /\ \E n \in 0..3 : last.calls = SubSeq(<<"headers", "rowCount", "batchGet">>, 1, n)
        /\ Len(last.outcomes) <= Len(last.calls)
        /\ Len(last.calls) >= 2 => last.outcomes[1] = "headers"
        /\ Len(last.calls) = 3 => last.outcomes[2] \in {"listed", "notListed"}
        /\ \A i \in DOMAIN last.outcomes :
              last.outcomes[i] = "error" =>
                  /\ i = Len(last.calls)
                  /\ last.pc = "failed"
                  /\ last.returned = "nothing"

\* The row-count lookup of an invocation has failed after the header
\* lookup succeeded.
C29_Witness ==
    /\ last.op = "fetchData"
    /\ last.outcomes = <<"headers", "error">>
    /\ last.pc = "failed"

\* Rows of the blocks 1..n of the plan.
RECURSIVE RowsCovered(_, _)
RowsCovered(ranges, n) ==
    IF n = 0 THEN 0
    ELSE RowsCovered(ranges, n - 1) + (ranges[n].topRow - ranges[n].startRow + 1)

\* C30: the planned ranges are consecutive blocks of at most 5000 rows from
\* row T upward, disjoint and without gaps, never holding row 1; planning
\* stops as soon as the blocks reach R rows or row 2, so that they cover at
\* least min(R, T - 1) data rows.
C30_BatchPlanCoversFromBottom ==
    (last.op = "fetchData" /\ Len(last.outcomes) >= 2
        /\ last.outcomes[2] \in {"listed", "notListed"}) =>
        LET ranges == last.ranges
            T      == last.totalRows
            R      == last.rowsToFetch
            n      == Len(ranges)
            least  == IF R < T - 1 THEN R ELSE T - 1
        IN  /\ \A i \in 1..n :
                 /\ 2 <= ranges[i].startRow /\ ranges[i].startRow <= ranges[i].topRow
                 /\ ranges[i].topRow - ranges[i].startRow + 1 <= 5000
            /\ n >= 1 => ranges[1].topRow = T
            /\ \A i \in 1..(n - 1) : ranges[i + 1].topRow = ranges[i].startRow - 1
            /\ \A i \in 1..(n - 1) :
                 RowsCovered(ranges, i) < R /\ ranges[i].startRow > 2
            /\ RowsCovered(ranges, n) >= least
            /\ n = 0 <=> (T <= 1 \/ R <= 0)

\* A plan of more than one block whose last block is cut at row 2.
C30_Witness ==
    /\ last.op = "fetchData"
    /\ Len(last.outcomes) >= 2 /\ last.outcomes[2] = "listed"
    /\ Len(last.ranges) >= 2
    /\ last.ranges[Len(last.ranges)].startRow = 2
    /\ last.ranges[Len(last.ranges)].topRow - 2 + 1 < 5000

\* C31: with fetchAll set, the rows to fetch are the T - 1 data rows and
\* every data row 2..T lies in a planned range, whatever page and pageSize
\* were passed: the blocks run from row T down to row 2 without a gap.
C31_FetchAllCoversEveryDataRow ==
    (last.op = "fetchData" /\ last.fetchAll /\ Len(last.outcomes) >= 2
        /\ last.outcomes[2] \in {"listed", "notListed"}) =>
        LET ranges == last.ranges
            T      == last.totalRows
            n      == Len(ranges)
        IN  /\ last.rowsToFetch = T - 1
            /\ T >= 2 =>
                  /\ n >= 1
                  /\ ranges[1].topRow = T
                  /\ \A i \in 1..(n - 1) : ranges[i + 1].topRow = ranges[i].startRow - 1
                  /\ ranges[n].startRow = 2

\* A fetchAll invocation for page 1 of size 15 has planned a sheet of more
\* than two blocks.
C31_Witness ==
    /\ last.op = "fetchData" /\ last.fetchAll
    /\ last.page = 1 /\ last.pageSize = 15
    /\ Len(last.outcomes) >= 2 /\ last.outcomes[2] = "listed"
    /\ last.totalRows = 12000
    /\ Len(last.ranges) = 3

\* C32: before sorting, the source row numbers strictly decrease along the
\* merged records: the bottom batch comes first and each batch is reversed.
C32_MergedRowsStrictlyDecrease ==
    (last.op = "fetchData" /\ last.returned = "records") =>
        \A i \in 1..(Len(last.merged) - 1) : last.merged[i] > last.merged[i + 1]

\* Two batches were merged, each contributing more than one record.
C32_Witness ==
    /\ last.op = "fetchData" /\ last.returned = "records"
    /\ Len(last.ranges) = 2
    /\ Len(BatchData(last.ranges[1], last.stride)) >= 2
    /\ Len(BatchData(last.ranges[2], last.stride)) >= 2

\* The valid records of a sheet of T rows, by row number.
ValidRecords(T, stride) == {row \in 2..T : ValidRow(row, stride)}

\* C40: the records a get-data request filters and counts are all the valid
\* records of the sheet: none is missing because it lies above the fetched
\* rows, and totalItems of a request without filters is their number.
C40_ResultCoversEveryValidRecord ==
    (last.op = "fetchData" /\ ~last.fetchAll /\ last.returned = "records") =>
        LET all == ValidRecords(last.totalRows, last.stride)
        IN  /\ \A row \in all : \E i \in DOMAIN last.merged : last.merged[i] = row
            /\ Len(last.merged) = Cardinality(all)

(***************************************************************************)
(* SpecRoutes: the key and the response object that GET /data and          *)
(* GET /search of the Express router compute and cache for a request, as   *)
(* functions of the query and of the records fetchData returned.  `last`   *)
(* keeps the latest request and the one before it, both computed against   *)
(* the same records.                                                       *)
(***************************************************************************)
\* GET /data with `search` as its only criterion and no year: the key, and
\* the response handed to cache.set.
DataRoute(term, page, pageSize, allData, t) ==
    LET searchParams == [f \in {"search"} |-> term]
        filteredData == SearchData(allData, term)
        result       == PaginateData(filteredData, page, pageSize)
    IN  [key |-> GenerateKey("", page, pageSize, searchParams),
         response |->
            [data |-> result.data,
             pagination |-> result.pagination,
             filters |-> [year |-> "all", search |-> searchParams],
             fetchedAt |-> t,
             fetchTime |-> 0,
             totalRecordsBeforeFilter |-> Len(allData),
             totalRecordsAfterFilter |-> Len(filteredData)]]

\* generateSearchKey(year, page, pageSize, search)
GenerateSearchKey(year, page, pageSize, search) ==
    GenerateKey(year, page, pageSize,
                IF search # <<>> THEN [f \in {"search"} |-> search] ELSE NoSearch)

\* GET /search with a term: the key, and the response handed to cache.set.
SearchRoute(term, page, pageSize, allData, t) ==
    LET searchResults == SearchData(allData, term)
        result        == PaginateData(searchResults, page, pageSize)
    IN  [key |-> GenerateSearchKey("", page, pageSize, term),
         response |->
            [data |-> result.data,
             pagination |-> result.pagination,
             search |-> [term |-> term, totalMatches |-> Len(searchResults),
                         searchTime |-> 0],
             fetchedAt |-> t,
             fetchTime |-> 0]]

\* Terms that are not blank: neither route accepts a blank term.
RouteTerms == {John, <<"j", "o", "h", "n", " ">>, Ana}

RoutePages == {1, 2}

RouteRecords == SeqsUpTo(SearchRecords, MaxSearchRecords)

RouteCall(endpoint, term, page, allData) ==
    /\ last.op = "none" \/ (last.op = "route" /\ last.prev.op = "none"
                                /\ last.allData = allData)
    /\ LET computed == IF endpoint = "data"
                       THEN DataRoute(term, page, DEFAULT_PAGE_SIZE, allData, now)
                       ELSE SearchRoute(term, page, DEFAULT_PAGE_SIZE, allData, now)
       IN  last' = [op |-> "route", endpoint |-> endpoint, term |-> term,
                    page |-> page, allData |-> allData,
                    key |-> computed.key, response |-> computed.response,
                    prev |-> last]
    /\ UNCHANGED <<now, cacheDuration, cache, sheet, reqs, rcall, kv, hreqs>>

InitRoutes == InitProcessor

NextRoutes ==
    \E endpoint \in {"data", "search"}, term \in RouteTerms, page \in RoutePages :
        \E allData \in RouteRecords : RouteCall(endpoint, term, page, allData)

SpecRoutes == InitRoutes /\ [][NextRoutes]_vars

\* Two cached payloads a client can use in each other's place: the same
\* fields, the same page of records and the same pagination.
EquivalentPayloads(p, q) ==
    /\ DOMAIN p = DOMAIN q
    /\ p.data = q.data
    /\ p.pagination = q.pagination

\* C36: two requests that produce the same cache key produce equivalent
\* payloads against the same sheet contents, a search request for a term
\* and a get-data request with that search term alone included.
C36_SameKeySamePayload ==
    (last.op = "route" /\ last.prev.op = "route" /\ last.key = last.prev.key) =>
        EquivalentPayloads(last.response, last.prev.response)

(***************************************************************************)
(* SpecRetry: GoogleSheetsService._retryRequest, the axios variant of the  *)
(* Express backend ("node") and the fetch variant of the Workers backend   *)
(* ("cfw").  An attempt's outcome is the HTTP status of the response, or   *)
(* status 0 with a code when no response arrived.                          *)
(***************************************************************************)
Http(status) == [status |-> status, code |-> ""]

AttemptOutcomes ==
    { Http(200), Http(400), Http(403), Http(404), Http(429), Http(500),
      [status |-> 0, code |-> "timeout"] }

\* requestFn() settled without an error reaching the catch block.
AttemptSucceeds(variant, outcome) == outcome.status >= 200 /\ outcome.status < 300

\* Mutant of AfterFailure: the attempt cap is not tested.
AfterFailureNoCap(variant, attempt, maxRetries, outcome) ==
    IF variant = "node"
    THEN IF outcome.status >= 400 /\ outcome.status < 500 THEN "throw" ELSE "wait"
    ELSE IF outcome.code = "timeout" THEN "throw" ELSE "wait"

\* The catch block of the loop: "throw" the error or "wait" and go on.
AfterFailure(variant, attempt, maxRetries, outcome) ==
    IF attempt = maxRetries THEN "throw"
    ELSE IF variant = "node"
    THEN IF outcome.status >= 400 /\ outcome.status < 500 THEN "throw" ELSE "wait"
    ELSE IF outcome.code = "timeout" THEN "throw" ELSE "wait"

\* The callers: _fetchHeaders and the batch call use the defaults (3, 1000),
\* _getTotalRows passes (2, 500); each sets the timeout of its request.
RetryCallers ==
    { [name |-> "headers",  maxRetries |-> 3, delay |-> 1000, timeout |-> 15000],
      [name |-> "rowCount", maxRetries |-> 2, delay |-> 500,  timeout |-> 15000],
      [name |-> "batchGet", maxRetries |-> 3, delay |-> 1000, timeout |-> 45000] }

\* Whether a timer guards the attempt that starts.  Express: `timeout` is an
\* option of each axios.get, so every attempt has its own timer.  Workers:
\* the caller arms one setTimeout(abort) before _retryRequest, and requestFn
\* clears it in `.finally` when the first fetch settles; nothing arms it
\* again.
TimerAtAttempt(variant, attempt) ==
    IF variant = "node" THEN TRUE ELSE attempt = 1

\* Mutant of NextDelay: the delay is not doubled.
NextDelayConstant(delay) == delay

\* delay *= 2
NextDelay(delay) == 2 * delay

\* The error the failed attempt leaves in the catch block.  Express: the
\* axios error, with `response.status` or a `code`.  Workers: the Error
\* built from the response status, or the AbortError of the fetch.
AttemptError(variant, outcome) ==
    IF variant = "node"
    THEN [name |-> "AxiosError", status |-> outcome.status,
          code |-> IF outcome.code = "timeout" THEN "ECONNABORTED" ELSE "",
          text |-> "Request failed"]
    ELSE IF outcome.code = "timeout"
    THEN [name |-> "AbortError", status |-> 0, code |-> "",
          text |-> "The operation was aborted"]
    ELSE IF outcome.status >= 400 /\ outcome.status < 500
    THEN [name |-> "Error", status |-> outcome.status, code |-> "",
          text |-> "Google Sheets API error"]
    ELSE [name |-> "Error", status |-> outcome.status, code |-> "",
          text |-> "HTTP error! status"]

\* What the catch block of _retryRequest throws for `error`: the error
\* itself, except that the Workers variant replaces an AbortError met
\* before the last attempt.
ThrownError(variant, attempt, maxRetries, error) ==
    IF variant = "cfw" /\ attempt # maxRetries /\ error.name = "AbortError"
    THEN [name |-> "Error", status |-> 0, code |-> "", text |-> "Request timeout"]
    ELSE error

RetryCall(variant, caller) ==
    /\ rcall.pc = "idle"
    /\ rcall' = [rcall EXCEPT !.pc = "trying", !.variant = variant,
                              !.caller = caller.name,
                              !.maxRetries = caller.maxRetries,
                              !.delay = caller.delay,
                              !.timeout = caller.timeout,
                              !.armed = TimerAtAttempt(variant, 1),
                              !.attempt = 1]
    /\ UNCHANGED <<now, cacheDuration, cache, last, sheet, reqs, kv, hreqs>>

\* One pass of the loop body: `await requestFn()` settles with `outcome`; a
\* timeout is the outcome of the attempt's timer firing.
AttemptEnds(outcome) ==
    /\ rcall.pc = "trying"
    /\ outcome.code = "timeout" => rcall.armed
    /\ LET tried == [rcall EXCEPT !.outcomes = Append(@, outcome),
                                  !.armed = FALSE]
           next  == AfterFailure(rcall.variant, rcall.attempt,
                                 rcall.maxRetries, outcome)
       IN  rcall' =
             IF AttemptSucceeds(rcall.variant, outcome)
             THEN [tried EXCEPT !.pc = "returned", !.result = "response"]
             ELSE IF next = "throw"
             THEN [tried EXCEPT !.pc = "thrown", !.result = "error",
                                !.error = ThrownError(rcall.variant, rcall.attempt,
                                              rcall.maxRetries,
                                              AttemptError(rcall.variant, outcome))]
             ELSE [tried EXCEPT !.pc = "waiting",
                                !.waits = Append(@, rcall.delay),
                                !.delay = NextDelay(rcall.delay)]
    /\ UNCHANGED <<now, cacheDuration, cache, last, sheet, reqs, kv, hreqs>>

\* The backoff timer resolves: attempt++ and the loop test; a loop that runs
\* out falls through (node: returns undefined, cfw: throws 'Max retries').
BackoffEnds ==
    /\ rcall.pc = "waiting"
    /\ rcall' =
         IF rcall.attempt + 1 <= rcall.maxRetries
         THEN [rcall EXCEPT !.pc = "trying", !.attempt = @ + 1,
                            !.armed = TimerAtAttempt(rcall.variant,
                                                     rcall.attempt + 1)]
         ELSE IF rcall.variant = "node"
         THEN [rcall EXCEPT !.pc = "returned", !.attempt = @ + 1,
                            !.result = "undefined"]
         ELSE [rcall EXCEPT !.pc = "thrown", !.attempt = @ + 1,
                            !.result = "max retries"]
    /\ UNCHANGED <<now, cacheDuration, cache, last, sheet, reqs, kv, hreqs>>

InitRetry == CacheIdle /\ NodeIdle /\ HonoIdle /\ rcall = NoRetryCall

NextRetry ==
    \/ \E variant \in {"node", "cfw"}, caller \in RetryCallers :
            RetryCall(variant, caller)
    \/ \E outcome \in AttemptOutcomes : AttemptEnds(outcome)
    \/ BackoffEnds

SpecRetry == InitRetry /\ [][NextRetry]_vars

RetryFinished == rcall.pc \in {"returned", "thrown"}

IsFailure(outcome) == ~(outcome.status >= 200 /\ outcome.status < 300)

\* C6: a call through the retry helper makes at most 3 attempts and then
\* ends, returning the first successful response or raising the failure of
\* the last attempt; while it has not ended, a next step is always enabled.
C6_RetryBoundedAndEnds ==
    /\ Len(rcall.outcomes) <= rcall.maxRetries
    /\ rcall.maxRetries <= 3
    /\ Len(rcall.waits) < 3
    /\ rcall.pc = "returned" =>
          /\ rcall.result = "response"
          /\ rcall.outcomes # <<>>
          /\ ~IsFailure(rcall.outcomes[Len(rcall.outcomes)])
          /\ \A i \in 1..(Len(rcall.outcomes) - 1) : IsFailure(rcall.outcomes[i])
    /\ rcall.pc = "thrown" =>
          /\ rcall.result = "error"
          /\ rcall.outcomes # <<>>
          /\ \A i \in 1..Len(rcall.outcomes) : IsFailure(rcall.outcomes[i])
    /\ RetryFinished \/ ENABLED NextRetry

C6_Witness ==
    /\ rcall.pc = "thrown"
    /\ Len(rcall.outcomes) = 3
    /\ Len(rcall.waits) = 2

\* C7: an attempt that fails with a client-fault response (400, 403, 404) is
\* the call's last: the failure propagates at once, with no backoff wait and
\* no further attempt.
ClientFault == {400, 403, 404}

C7_ClientFaultNotRetried ==
    \A i \in 1..Len(rcall.outcomes) :
        rcall.outcomes[i].status \in ClientFault
        => /\ i = Len(rcall.outcomes)
           /\ rcall.pc = "thrown"
           /\ Len(rcall.waits) = i - 1

\* C8: a transient failure (5xx, timeout, 429) is propagated only when the
\* attempt cap is reached; while attempts remain it is retried after a wait.
IsTransient(outcome) ==
    outcome.status >= 500 \/ outcome.status = 429 \/ outcome.code = "timeout"

C8_TransientRetriedWhileAttemptsRemain ==
    (rcall.pc = "thrown" /\ IsTransient(rcall.outcomes[Len(rcall.outcomes)]))
    => Len(rcall.outcomes) = rcall.maxRetries

\* 2^n
RECURSIVE Pow2(_)
Pow2(n) == IF n = 0 THEN 1 ELSE 2 * Pow2(n - 1)

\* C33 as stated: for every remote call the wait before the k-th retry is
\* 1 second * 2^(k-1).
C33_EveryCallBacksOffFromOneSecond ==
    \A k \in 1..Len(rcall.waits) : rcall.waits[k] = 1000 * Pow2(k - 1)

\* C33 as amended: the wait before the k-th retry is d * 2^(k-1), with d one
\* second for the header lookup and the batch call and half a second for the
\* row-count lookup, which waits at most once.
C33_BackoffDoublesFromCallersDelay ==
    LET d == IF rcall.caller = "rowCount" THEN 500 ELSE 1000
    IN  /\ \A k \in 1..Len(rcall.waits) : rcall.waits[k] = d * Pow2(k - 1)
        /\ rcall.caller = "rowCount" => Len(rcall.waits) <= 1

\* A header lookup has waited twice.
C33_Witness ==
    /\ rcall.caller = "headers"
    /\ Len(rcall.waits) = 2

\* C34: every attempt of a remote call, retries included, is in flight with
\* the call's timer armed (15 s for the lookups, 45 s for the batch call).
C34_EveryAttemptHasArmedTimer ==
    rcall.pc = "trying" =>
        /\ rcall.armed
        /\ rcall.timeout = IF rcall.caller = "batchGet" THEN 45000 ELSE 15000

\* The leading text of the message fetchData's catch block builds.
FetchDataCatchText(variant, error) ==
    LET ByStatus(status) ==
            IF status = 400 THEN "Invalid request to Google Sheets API"
            ELSE IF status = 403
            THEN "Access denied to Google Sheets. Please check API key permissions"
            ELSE IF status = 404
            THEN "Google Sheet not found. Please check GOOGLE_SHEET_ID or sheet name"
            ELSE IF status = 408 \/ status >= 500
            THEN "Google Sheets API is unavailable"
            ELSE IF status = 429 THEN "Rate limit exceeded. Please try again later"
            ELSE "Google Sheets API error"
        timeout == "Request timeout while fetching data from Google Sheets"
        failed  == "Failed to fetch data from Google Sheets"
    IN  IF variant = "node"
        THEN IF error.status # 0 THEN ByStatus(error.status)
             ELSE IF error.code = "ECONNABORTED" THEN timeout
             ELSE IF error.code = "ENOTFOUND"
             THEN "Network error: Could not connect to Google Sheets API"
             ELSE failed
        ELSE IF error.name = "AbortError" \/ error.text = "Request timeout"
             THEN timeout
             ELSE IF error.text = "HTTP error! status" THEN ByStatus(error.status)
             ELSE IF error.text = "Network error"
             THEN "Network error: Could not connect to Google Sheets API"
             ELSE failed

\* The catch block of fetchData: the error it throws for the error that
\* came out of _retryRequest, as the leading text of its message and the
\* status the message carries (0: none).  Express tests error.response
\* and error.code; Workers tests error.name and the words of error.message.
FetchDataCatch(variant, error) ==
    [text |-> FetchDataCatchText(variant, error), status |-> error.status]

\* C35: a call that ends on a client-fault response surfaces from fetchData
\* as the error that names the cause (400 invalid request, 403 access
\* denied, 404 sheet not found), which no exhausted transient failure
\* surfaces as.
C35_ClientFaultSurfacesWithItsCause ==
    (rcall.pc = "thrown"
        /\ rcall.outcomes[Len(rcall.outcomes)].status \in ClientFault) =>
        LET status   == rcall.outcomes[Len(rcall.outcomes)].status
            surfaced == FetchDataCatch(rcall.variant, rcall.error)
        IN  /\ status = 400 => surfaced.text = "Invalid request to Google Sheets API"
            /\ status = 403 => surfaced.text =
                  "Access denied to Google Sheets. Please check API key permissions"
            /\ status = 404 => surfaced.text =
                  "Google Sheet not found. Please check GOOGLE_SHEET_ID or sheet name"
            /\ \A outcome \in AttemptOutcomes :
                  (IsFailure(outcome) /\ IsTransient(outcome)) =>
                      surfaced # FetchDataCatch(rcall.variant,
                                     ThrownError(rcall.variant, rcall.maxRetries,
                                         rcall.maxRetries,
                                         AttemptError(rcall.variant, outcome)))

(***************************************************************************)
(* SpecHono: the Workers backend.  CacheService keeps JSON text in a KV     *)
(* namespace; every KV operation may fail.  getData and the controllers of *)
(* src/cfw_hono-backend/src/controllers/dataController.ts run over it.     *)
(***************************************************************************)
HReqs == {"h1", "h2"}

\* JSON.stringify: the text, kept as its member list.
JsonStringify(v) ==
    CASE v.kind = "object" ->
            [text |-> "{}", members |-> {<<n, v.fields[n]>> : n \in DOMAIN v.fields}]
      [] v.kind = "array"  ->
            [text |-> "[]", members |-> {<<i, v.items[i]>> : i \in DOMAIN v.items}]
      [] OTHER -> [text |-> "null", members |-> {}]

\* JSON.parse of such a text.
JsonParse(j) ==
    LET names == {m[1] : m \in j.members}
        at(n) == (CHOOSE m \in j.members : m[1] = n)[2]
    IN  CASE j.text = "{}" -> JsObject([n \in names |-> at(n)])
          [] j.text = "[]" -> JsArray([i \in 1..Cardinality(names) |-> at(i)])
          [] OTHER -> JsNull

\* expirationTtl handed to KV.put, in seconds.
ExpirationTtl(duration) == duration \div 1000

\* Mutant of KvGet: the failure of the KV read is not caught.
KvGetRethrows(store, key, kvOk) ==
    IF ~kvOk THEN [threw |-> TRUE, value |-> JsNull]
    ELSE IF key \notin DOMAIN store THEN [threw |-> FALSE, value |-> JsNull]
    ELSE [threw |-> FALSE,
          value |-> JsObject(WithField(Spread(JsonParse(store[key].json)),
                                       "cached", TRUE))]

\* CacheService.get (KV): a failing KV read is caught and answered as a miss.
KvGet(store, key, kvOk) ==
    IF ~kvOk THEN [threw |-> FALSE, value |-> JsNull]
    ELSE IF key \notin DOMAIN store THEN [threw |-> FALSE, value |-> JsNull]
    ELSE [threw |-> FALSE,
          value |-> JsObject(WithField(Spread(JsonParse(store[key].json)),
                                       "cached", TRUE))]

\* CacheService.set (KV): a failing KV write is caught and dropped.
KvSet(store, key, data, duration, kvOk) ==
    IF ~kvOk THEN [threw |-> FALSE, store |-> store]
    ELSE [threw |-> FALSE,
          store |-> MapSet(store, key,
                           [json |-> JsonStringify(data),
                            expirationTtl |-> ExpirationTtl(duration),
                            payload |-> data])]

\* CacheService.clear (KV): list and delete every key; a failure is caught.
KvClear(store, kvOk) ==
    IF ~kvOk THEN [threw |-> FALSE, store |-> store]
    ELSE [threw |-> FALSE, store |-> EmptyCache]

\* CacheService.clearPattern (KV): list the keys with prefix 'data|', delete
\* those that include the pattern and return their number; a failure is
\* caught and 0 returned.
KvClearPattern(store, pattern, kvOk) ==
    LET listed   == {k \in DOMAIN store : StartsWith(KeyText(k), <<"data", "|">>)}
        toDelete == {k \in listed : Includes(KeyText(k), pattern)}
    IN  IF ~kvOk THEN [cleared |-> 0, store |-> store]
        ELSE [cleared |-> Cardinality(toDelete),
              store |-> [k \in (DOMAIN store) \ toDelete |-> store[k]]]

IdleHReq ==
    [pc |-> "idle", kind |-> "none", key |-> <<>>, year |-> "",
     missed |-> FALSE, getFailed |-> FALSE, setFailed |-> FALSE,
     fetched |-> "none", cachedResult |-> JsNull, hitPayload |-> JsNull,
     payload |-> JsNull, storedAtDone |-> FALSE, response |-> NoResponse,
     entriesAtStart |-> 0, entriesLeft |-> 0]

\* getUniqueTutorNames over the records of a sheet snapshot.
TutorNames(snapshot) == IF snapshot = 0 THEN <<"Budi">> ELSE <<"Budi", "Joko">>

CurrentYear == "2025"

TutorsKey == <<<<"unique_tutor_names_", CurrentYear>>>>

\* A controller's catch block: c.json(envelope, 500).
HonoError(hq, message) ==
    [hq EXCEPT !.pc = "done",
               !.response = [status |-> 500, body |-> ErrorEnvelope(message, now)]]

\* getDataController / getData up to the fetch: build the key,
\* `await cacheService.get`, and return a hit.
HonoDataStart(h, year, kvOk) ==
    /\ hreqs[h].pc = "idle"
    /\ LET key == GenerateKey(year, 1, DEFAULT_PAGE_SIZE, NoSearch)
           got == KvGet(kv, key, kvOk)
           hq  == [hreqs[h] EXCEPT !.kind = "data", !.key = key, !.year = year,
                                   !.getFailed = ~kvOk]
       IN  hreqs' = [hreqs EXCEPT ![h] =
             IF got.threw THEN HonoError(hq, "cache get failed")
             ELSE IF got.value # JsNull
             THEN [hq EXCEPT !.pc = "done", !.cachedResult = got.value,
                             !.hitPayload = kv[key].payload,
                             !.response = [status |-> 200, body |-> got.value]]
             ELSE [hq EXCEPT !.pc = "fetching", !.missed = TRUE]]
    /\ UNCHANGED <<now, cacheDuration, cache, last, sheet, reqs, rcall, kv>>

\* getData after `await fetchData(...)`: filter, paginate, build the
\* response and return it with cached: false.  Nothing is written to the
\* cache on this path.
HonoDataReturn(h, ok) ==
    /\ hreqs[h].pc = "fetching" /\ hreqs[h].kind = "data"
    /\ LET hq       == hreqs[h]
           response == DataResponse(sheet, hq.year, now, 0)
       IN  hreqs' = [hreqs EXCEPT ![h] =
             IF ok
             THEN [hq EXCEPT !.pc = "done", !.fetched = "ok",
                             !.payload = response,
                             !.storedAtDone = hq.key \in DOMAIN kv,
                             !.response =
                                [status |-> 200,
                                 body |-> JsObject(WithField(response.fields,
                                                             "cached", FALSE))]]
             ELSE HonoError([hq EXCEPT !.fetched = "failed"],
                            "Failed to fetch data from Google Sheets")]
    /\ UNCHANGED <<now, cacheDuration, cache, last, sheet, reqs, rcall, kv>>

\* getTutorsController up to the fetch.
TutorsStart(h, kvOk) ==
    /\ hreqs[h].pc = "idle"
    /\ LET got == KvGet(kv, TutorsKey, kvOk)
           hq  == [hreqs[h] EXCEPT !.kind = "tutors", !.key = TutorsKey,
                                   !.getFailed = ~kvOk]
       IN  hreqs' = [hreqs EXCEPT ![h] =
             IF got.threw THEN HonoError(hq, "cache get failed")
             ELSE IF got.value # JsNull
             THEN [hq EXCEPT !.pc = "done", !.cachedResult = got.value,
                             !.hitPayload = kv[TutorsKey].payload,
                             !.response =
                                [status |-> 200,
                                 body |-> JsObject([names |-> got.value,
                                                    cached |-> TRUE])]]
             ELSE [hq EXCEPT !.pc = "fetching", !.missed = TRUE]]
    /\ UNCHANGED <<now, cacheDuration, cache, last, sheet, reqs, rcall, kv>>

\* getTutorsController after the fetch: unique names, `await cacheService.set`
\* and the answer.
TutorsReturn(h, ok, kvOk) ==
    /\ hreqs[h].pc = "fetching" /\ hreqs[h].kind = "tutors"
    /\ LET hq    == hreqs[h]
           names == JsArray(TutorNames(sheet))
           put   == KvSet(kv, TutorsKey, names, cacheDuration, kvOk)
       IN  IF ~ok
           THEN /\ kv' = kv
                /\ hreqs' = [hreqs EXCEPT ![h] =
                      HonoError([hq EXCEPT !.fetched = "failed"],
                                "Failed to fetch data from Google Sheets")]
           ELSE /\ kv' = put.store
                /\ hreqs' = [hreqs EXCEPT ![h] =
                      IF put.threw
                      THEN HonoError([hq EXCEPT !.fetched = "ok",
                                                !.setFailed = TRUE],
                                     "cache set failed")
                      ELSE [hq EXCEPT !.pc = "done", !.fetched = "ok",
                                      !.setFailed = ~kvOk,
                                      !.payload = names,
                                      !.storedAtDone = TutorsKey \in DOMAIN put.store,
                                      !.response =
                                         [status |-> 200,
                                          body |-> JsObject([names |-> names,
                                                             cached |-> FALSE])]]]
    /\ UNCHANGED <<now, cacheDuration, cache, last, sheet, reqs, rcall>>

\* getRefreshController: `await cacheService.clear()` and the confirmation.
HonoRefresh(h, kvOk) ==
    /\ hreqs[h].pc = "idle"
    /\ LET cleared == KvClear(kv, kvOk)
           hq      == [hreqs[h] EXCEPT !.kind = "refresh",
                                       !.entriesAtStart = Cardinality(DOMAIN kv),
                                       !.entriesLeft =
                                           Cardinality(DOMAIN cleared.store)]
       IN  /\ kv' = cleared.store
           /\ hreqs' = [hreqs EXCEPT ![h] =
                IF cleared.threw THEN HonoError(hq, "Failed to refresh data")
                ELSE [hq EXCEPT !.pc = "done",
                                !.response =
                                   [status |-> 200,
                                    body |-> JsObject(
                                       [message |-> "Cache cleared successfully. Data will be refreshed on the next request."])]]]
    /\ UNCHANGED <<now, cacheDuration, cache, last, sheet, reqs, rcall>>

\* cacheService.clearPattern(pattern) called on the KV cache.
HonoClearPattern(pattern, kvOk) ==
    /\ LET done == KvClearPattern(kv, pattern, kvOk)
       IN  /\ kv' = done.store
           /\ last' = [NoCall EXCEPT !.op = "clearPattern", !.pattern = pattern,
                                     !.count = done.cleared,
                                     !.before = kv, !.after = done.store]
    /\ UNCHANGED <<now, cacheDuration, cache, sheet, reqs, rcall, hreqs>>

\* KV drops an entry whose expirationTtl has run out.
KvExpire(key) ==
    /\ key \in DOMAIN kv
    /\ kv' = MapDelete(kv, key)
    /\ UNCHANGED <<now, cacheDuration, cache, last, sheet, reqs, rcall, hreqs>>

HonoSheetEdit ==
    /\ sheet < MaxSheetVersion
    /\ sheet' = sheet + 1
    /\ UNCHANGED <<now, cacheDuration, cache, last, reqs, rcall, kv, hreqs>>

InitHono ==
    /\ now = 0
    /\ cacheDuration = DEFAULT_CACHE_DURATION
    /\ cache = EmptyCache
    /\ last = NoCall
    /\ sheet = 0
    /\ reqs = [r \in {} |-> JsNull]
    /\ RetryIdle
    /\ kv = EmptyCache
    /\ hreqs = [h \in HReqs |-> IdleHReq]

NextHono ==
    \/ \E h \in HReqs, year \in {"", "2025"}, kvOk \in BOOLEAN :
            HonoDataStart(h, year, kvOk)
    \/ \E h \in HReqs, ok \in BOOLEAN : HonoDataReturn(h, ok)
    \/ \E h \in HReqs, kvOk \in BOOLEAN : TutorsStart(h, kvOk)
    \/ \E h \in HReqs, ok \in BOOLEAN, kvOk \in BOOLEAN : TutorsReturn(h, ok, kvOk)
    \/ \E h \in HReqs, kvOk \in BOOLEAN : HonoRefresh(h, kvOk)
    \/ \E pattern \in Patterns, kvOk \in BOOLEAN : HonoClearPattern(pattern, kvOk)
    \/ \E key \in DOMAIN kv : KvExpire(key)
    \/ HonoSheetEdit

SpecHono == InitHono /\ [][NextHono]_vars

\* C1: a get-data request that missed the cache and completed successfully
\* leaves an entry under its key in the cache, from which an identical
\* request is answered before the TTL elapses.
C1_MissThenSuccessLeavesEntry ==
    \A h \in HReqs :
        ( /\ hreqs[h].kind = "data" /\ hreqs[h].pc = "done"
          /\ hreqs[h].missed /\ hreqs[h].response.status = 200 )
        => hreqs[h].storedAtDone

\* The value `v` without its from-cache annotation.
StripCached(v) ==
    IF v.kind = "object" THEN JsObject(WithoutField(v.fields, "cached")) ELSE v

\* C3: what get returns on a hit equals the payload that was set, except for
\* the added annotation cached = true.
C3_RoundTripEqualsPayloadPlusCachedFlag ==
    \A h \in HReqs :
        (hreqs[h].pc = "done" /\ hreqs[h].cachedResult # JsNull)
        => /\ hreqs[h].cachedResult.kind = "object"
           /\ hreqs[h].cachedResult.fields["cached"] = TRUE
           /\ StripCached(hreqs[h].cachedResult) = StripCached(hreqs[h].hitPayload)

\* C5: a failing cache get is treated as a miss and a failing cache set is
\* ignored: a request whose cache operation failed still fetches, and it is
\* answered 200 with the response computed from the fetch whenever the
\* fetch succeeds.
C5_CacheFailureNeverFailsRequest ==
    \A h \in HReqs :
        /\ (hreqs[h].getFailed /\ hreqs[h].pc # "idle")
              => /\ hreqs[h].missed
                 /\ hreqs[h].pc = "fetching" \/ hreqs[h].fetched # "none"
        /\ ( /\ hreqs[h].pc = "done"
             /\ hreqs[h].kind \in {"data", "tutors"}
             /\ hreqs[h].getFailed \/ hreqs[h].setFailed
             /\ hreqs[h].fetched = "ok" )
              => /\ hreqs[h].response.status = 200
                 /\ hreqs[h].response.body.fields["cached"] = FALSE
                 /\ hreqs[h].kind = "data" =>
                        WithoutField(hreqs[h].response.body.fields, "cached")
                            = hreqs[h].payload.fields
                 /\ hreqs[h].kind = "tutors" =>
                        hreqs[h].response.body.fields["names"] = hreqs[h].payload

\* C12: after clear() has completed, as part of a refresh request that is
\* answered with the confirmation, the cache holds no entries, however many
\* it held before.
C12_ClearLeavesNoEntries ==
    \A h \in HReqs :
        (hreqs[h].kind = "refresh" /\ hreqs[h].pc = "done")
        => hreqs[h].entriesLeft = 0

\* C13: clearPattern(p) removes every entry whose key contains p, keeps
\* every other entry as it was, and returns the number of entries removed.
C13_ClearPatternRemovesExactlyMatches ==
    last.op = "clearPattern"
    => /\ \A k \in DOMAIN last.before :
            IF Includes(KeyText(k), last.pattern)
            THEN k \notin DOMAIN last.after
            ELSE k \in DOMAIN last.after /\ last.after[k] = last.before[k]
       /\ DOMAIN last.after \subseteq DOMAIN last.before
       /\ last.count =
             Cardinality({k \in DOMAIN last.before :
                            Includes(KeyText(k), last.pattern)})

C5_Witness ==
    \E a \in HReqs, b \in HReqs :
        /\ hreqs[a].kind = "data" /\ hreqs[a].getFailed
        /\ hreqs[a].pc = "done" /\ hreqs[a].response.status = 200
        /\ hreqs[b].kind = "tutors" /\ hreqs[b].setFailed
        /\ hreqs[b].pc = "done" /\ hreqs[b].response.status = 200

====
